---- MODULE Spec2Model ----
(***************************************************************************)
(* Model of the C4 diagram container (diagram_generator/c4_models.py), of   *)
(* the diagram optimizer (diagram_generator/diagram_optimizer.py) and of   *)
(* the architecture extractor (architecture_extractor/                     *)
(* component_classifier.py and relationship_extractor.py).                 *)
(*                                                                         *)
(*   Spec            a C4Diagram under add_element / add_relationship /    *)
(*                   remove_element calls                                  *)
(*   SpecValidate    C4Diagram.validate() on diagrams built by the         *)
(*                   dataclass constructor from arbitrary lists            *)
(*   SpecLevels      _calculate_dependency_levels, one while iteration per *)
(*                   step, on every relationship graph over a, b, c        *)
(*   SpecMerge       _merge_duplicate_relationships on relationship lists  *)
(*   SpecTransitive  _simplify_transitive_relationships on relationship    *)
(*                   lists                                                 *)
(*   SpecLabels      _merge_relationship_labels on pairs of labels         *)
(*   SpecForce       _apply_force_directed_layout, one loop iteration per  *)
(*                   step, and a second pass on the positions of the first *)
(*   SpecOptimize    optimize_diagram, one pass per step, and a second run *)
(*                   on the same diagram                                   *)
(*   SpecExtract     classify_architecture, then extract_relationships,    *)
(*                   one extraction pass per step                          *)
(*                                                                         *)
(* Strings that the code inspects (labels, module names, imports, node     *)
(* names) are sequences of characters.  Floats are exact rationals;        *)
(* coordinates that come out of cos/sin are kept as unevaluated terms.     *)
(* Inside the force-directed pass a float is the integer number of its     *)
(* 1/Scale parts, and division and square root round toward zero.          *)
(* Relationship ids are distinct, as the uuid4 defaults make them.  Where  *)
(* the code walks a set of strings, whose order depends on the hash seed   *)
(* of the process, the order is chosen by the action.                      *)
(***************************************************************************)
EXTENDS Integers, Sequences, FiniteSets, TLC

VARIABLES
    elements,        \* C4Diagram.elements      (list of C4Element)
    relationships,   \* C4Diagram.relationships (list of C4Relationship)
    call,            \* the last call made: [op, arg]
    raised,          \* exception raised by the last call, or "None"
    returned,        \* value returned by the last call, or "None"
    pc,              \* position of the running operation
    errors,          \* list returned by validate()
    levels,          \* _calculate_dependency_levels: levels dict
    in_degree,       \* _calculate_dependency_levels: in_degree dict
    queue,           \* _calculate_dependency_levels: queue list
    dequeued,        \* how many times each element id was popped from queue
    config,          \* DiagramOptimizer.config (OptimizationConfig)
    input,           \* the diagram passed to optimize_diagram, as the caller holds it
    metadata,        \* C4Diagram.metadata of the working diagram
    before,          \* the relationship list before the last relationship pass
    earlier,         \* an earlier optimize_diagram run: its diagram and its result
    analysis_results, \* Dict[str, ModuleInfo] handed to the architecture extractor
    repository_info, \* repository metadata handed to classify_architecture
    components,      \* Dict[str, C4Component], in insertion order
    extracted,       \* list of extractor C4Relationship
    iteration,       \* _apply_force_directed_layout: iterations executed
    max_force,       \* _apply_force_directed_layout: max_force of the last iteration
    converged,       \* _apply_force_directed_layout: the loop was left by break
    first_pass       \* the result of an earlier force-directed pass

lv == <<levels, in_degree, queue, dequeued>>

opt == <<config, input, metadata, before, earlier>>

arch == <<analysis_results, repository_info, components, extracted>>

fd == <<iteration, max_force, converged, first_pass>>

vars == <<elements, relationships, call, raised, returned, pc, errors, lv, opt, arch, fd>>

----------------------------------------------------------------------------
(* Bounds *)

MaxElements == 2
MaxRelationships == 2
MaxValidateElements == 2
MaxValidateRelationships == 1
MaxLevelRelationships == 3
MaxMergeRelationships == 3
MaxTransitiveRelationships == 3
MaxOptimizeRelationships == 2
MaxLabelLen == 2
MaxForceIterations == 3
MaxModules == 3

ElementIds == {"a", "b"}
Names == {"Svc", "Repo"}
ElementTypes == {"component", "person"}
RelationshipIds == {<<"r", 1>>}
RelationshipTypes == {"uses", "calls"}
LayoutElementIds == {"a", "b", "c"}

None == "None"

----------------------------------------------------------------------------
(* Generic helpers *)

Range(s) == {s[i] : i \in DOMAIN s}

SeqsUpTo(S, n) == UNION {[1..k -> S] : k \in 0..n}

RECURSIVE SelectSeq2(_, _, _)
\* [x for x in s if keep(x)], with keep given as the set of kept values
SelectSeq2(s, kept, i) ==
    IF i > Len(s) THEN <<>>
    ELSE (IF s[i] \in kept THEN <<s[i]>> ELSE <<>>) \o SelectSeq2(s, kept, i + 1)

----------------------------------------------------------------------------
(* Data model *)

\* labels are strings, modelled as sequences of one-character strings
DefaultLabel(relationship_type) ==
    CASE relationship_type = "uses"  -> <<"U", "s", "e", "s">>
      [] relationship_type = "calls" -> <<"C", "a", "l", "l", "s">>
      [] relationship_type = "depends_on" ->
             <<"D", "e", "p", "e", "n", "d", "s", " ", "O", "n">>

\* a property map is a set of <<key, value>> pairs with distinct keys
NoProperties == {}

\* a coordinate is None or a float; a float is the exact rational n/d, d > 0
NoCoordinate == [kind |-> "None"]

\* cls is the dataclass the element is an instance of
C4Element(id, name, element_type) ==
    [cls |-> "C4Element", id |-> id, name |-> name, element_type |-> element_type,
     properties |-> NoProperties, x |-> NoCoordinate, y |-> NoCoordinate]

\* C4Person(...): element_type is fixed (init=False)
C4Person(id, name) ==
    [C4Element(id, name, "person") EXCEPT !.cls = "C4Person"]

\* C4Component(...): element_type is fixed (init=False)
C4Component(id, name) ==
    [C4Element(id, name, "component") EXCEPT !.cls = "C4Component"]

C4Relationship(id, source_id, target_id, label, relationship_type) ==
    [id |-> id, source_id |-> source_id, target_id |-> target_id,
     label |-> IF label = <<>> THEN DefaultLabel(relationship_type) ELSE label,
     relationship_type |-> relationship_type, properties |-> NoProperties]

ElementInputs ==
    {C4Element(id, name, t) : id \in ElementIds, name \in Names, t \in ElementTypes}

RelationshipInputs ==
    {C4Relationship(id, s, t, <<>>, k) :
        id \in RelationshipIds, s \in ElementIds, t \in ElementIds,
        k \in RelationshipTypes}

\* element_ids = {e.id for e in self.elements}
element_ids(els) == {els[i].id : i \in DOMAIN els}

----------------------------------------------------------------------------
(* C4Diagram.add_element *)

AddElementNeverRaises(els, element) == FALSE

\* any(e.id == element.id for e in self.elements)
AddElementRaises(els, element) == \E i \in DOMAIN els : els[i].id = element.id

add_element(element) ==
    /\ pc = "idle"
    /\ call' = [op |-> "add_element", arg |-> element]
    /\ IF AddElementRaises(elements, element)
       THEN /\ raised' = "ValueError"
            /\ UNCHANGED elements
       ELSE /\ Len(elements) < MaxElements
            /\ raised' = None
            /\ elements' = Append(elements, element)
    /\ returned' = None
    /\ UNCHANGED <<relationships, pc, errors, lv, arch, fd, opt>>

(* C4Diagram.add_relationship *)

AddRelationshipChecksSourceOnly(els, relationship) ==
    relationship.source_id \notin element_ids(els)

AddRelationshipRaises(els, relationship) ==
    \/ relationship.source_id \notin element_ids(els)
    \/ relationship.target_id \notin element_ids(els)

add_relationship(relationship) ==
    /\ pc = "idle"
    /\ call' = [op |-> "add_relationship", arg |-> relationship]
    /\ IF AddRelationshipRaises(elements, relationship)
       THEN /\ raised' = "ValueError"
            /\ UNCHANGED relationships
       ELSE /\ Len(relationships) < MaxRelationships
            /\ raised' = None
            /\ relationships' = Append(relationships, relationship)
    /\ returned' = None
    /\ UNCHANGED <<elements, pc, errors, lv, arch, fd, opt>>

(* C4Diagram.remove_element *)

RelationshipsKeptForgetsTarget(rels, element_id) ==
    {r \in Range(rels) : r.source_id # element_id}

\* the relationships kept by remove_element's first comprehension
RelationshipsKept(rels, element_id) ==
    {r \in Range(rels) : r.source_id # element_id /\ r.target_id # element_id}

remove_element(element_id) ==
    /\ pc = "idle"
    /\ call' = [op |-> "remove_element", arg |-> element_id]
    /\ relationships' =
           SelectSeq2(relationships, RelationshipsKept(relationships, element_id), 1)
    /\ elements' =
           SelectSeq2(elements, {e \in Range(elements) : e.id # element_id}, 1)
    /\ raised' = None
    /\ returned' = (Len(elements') < Len(elements))
    /\ UNCHANGED <<pc, errors, lv, arch, fd, opt>>

(* C4Diagram.get_statistics *)

\* a dict is a set of <<key, value>> pairs with distinct keys
RECURSIVE CountFirstOnly(_, _, _)
CountFirstOnly(values, counts, i) ==
    IF i > Len(values) THEN counts
    ELSE CountFirstOnly(values,
             {p \in counts : p[1] # values[i]} \cup {<<values[i], 1>>}, i + 1)

RECURSIVE CountValues(_, _, _)
\* counts[v] = counts.get(v, 0) + 1 for v = values[i], values[i + 1], ...
CountValues(values, counts, i) ==
    IF i > Len(values) THEN counts
    ELSE LET seen == {p \in counts : p[1] = values[i]}
             old == IF seen = {} THEN 0 ELSE (CHOOSE p \in seen : TRUE)[2]
         IN CountValues(values,
                {p \in counts : p[1] # values[i]} \cup {<<values[i], old + 1>>}, i + 1)

statistics(els, rels) ==
    [total_elements |-> Len(els),
     total_relationships |-> Len(rels),
     element_types |-> CountValues([i \in DOMAIN els |-> els[i].element_type], {}, 1),
     relationship_types |->
         CountValues([i \in DOMAIN rels |-> rels[i].relationship_type], {}, 1),
     diagram_type |-> "component"]

get_statistics ==
    /\ pc = "idle"
    /\ call' = [op |-> "get_statistics", arg |-> None]
    /\ raised' = None
    /\ returned' = statistics(elements, relationships)
    /\ UNCHANGED <<elements, relationships, pc, errors, lv, arch, fd, opt>>

----------------------------------------------------------------------------
(* C4Diagram.validate *)

RECURSIVE RelationshipErrors(_, _, _)
\* the "orphaned relationships" loop
RelationshipErrors(els, rels, i) ==
    IF i > Len(rels) THEN <<>>
    ELSE (IF rels[i].source_id \notin element_ids(els)
             THEN <<[error |-> "invalid source", relationship |-> rels[i].id,
                     id |-> rels[i].source_id]>>
             ELSE <<>>)
         \o (IF rels[i].target_id \notin element_ids(els)
             THEN <<[error |-> "invalid target", relationship |-> rels[i].id,
                     id |-> rels[i].target_id]>>
             ELSE <<>>)
         \o RelationshipErrors(els, rels, i + 1)

RECURSIVE DuplicateNameErrors(_, _, _)
\* the "duplicate element names within the same type" loop; type_names is the
\* key set of the dict built so far
DuplicateNameErrors(els, type_names, i) ==
    IF i > Len(els) THEN <<>>
    ELSE LET key == <<els[i].element_type, els[i].name>> IN
         (IF key \in type_names
             THEN <<[error |-> "duplicate name", element_type |-> els[i].element_type,
                     name |-> els[i].name]>>
             ELSE <<>>)
         \o DuplicateNameErrors(els, type_names \cup {key}, i + 1)

validate(els, rels) ==
    RelationshipErrors(els, rels, 1) \o DuplicateNameErrors(els, {}, 1)

Validate ==
    /\ pc = "built"
    /\ errors' = validate(elements, relationships)
    /\ call' = [op |-> "validate", arg |-> None]
    /\ raised' = None
    /\ returned' = None
    /\ pc' = "validated"
    /\ UNCHANGED <<elements, relationships, lv, arch, fd, opt>>

----------------------------------------------------------------------------
(* DiagramOptimizer._calculate_dependency_levels *)

Max(m, n) == IF m >= n THEN m ELSE n

RECURSIVE Keys(_, _, _)
\* the keys of a dict filled in element order: ids by first occurrence
Keys(els, seen, i) ==
    IF i > Len(els) THEN <<>>
    ELSE (IF els[i].id \in seen THEN <<>> ELSE <<els[i].id>>)
         \o Keys(els, seen \cup {els[i].id}, i + 1)

\* in_degree after the "Calculate in-degrees" loop
InDegrees(els, rels) ==
    [id \in element_ids(els) |->
        Cardinality({i \in DOMAIN rels : rels[i].target_id = id})]

InitialQueueOfAllElements(els, deg) == Keys(els, {}, 1)

\* queue = [elem_id for elem_id, degree in in_degree.items() if degree == 0]
InitialQueue(els, deg) ==
    SelectSeq(Keys(els, {}, 1), LAMBDA id : deg[id] = 0)

LevelRelaxWithoutIncrement(target_level, current_level) ==
    Max(target_level, current_level)

\* max(levels[target], levels[current] + 1)
LevelRelax(target_level, current_level) == Max(target_level, current_level + 1)

RECURSIVE UpdateDependents(_, _, _, _)
\* the "for rel in diagram.relationships" loop of one while iteration, from the
\* i-th relationship on; st = [levels, in_degree, queue]
UpdateDependents(rels, current, st, i) ==
    IF i > Len(rels) THEN st
    ELSE IF rels[i].source_id # current THEN UpdateDependents(rels, current, st, i + 1)
    ELSE LET target == rels[i].target_id
             lvl == [st.levels EXCEPT
                       ![target] = LevelRelax(st.levels[target], st.levels[current])]
             deg == [st.in_degree EXCEPT ![target] = @ - 1]
             q   == IF deg[target] = 0 THEN Append(st.queue, target) ELSE st.queue
         IN UpdateDependents(rels, current,
                             [levels |-> lvl, in_degree |-> deg, queue |-> q], i + 1)

\* one iteration of "while queue": current = queue.pop(0), then the loop
DequeueOne(rels, st) ==
    UpdateDependents(rels, Head(st.queue),
                     [st EXCEPT !.queue = Tail(st.queue)], 1)

\* the state before the while loop
LevelsStart(els, rels) ==
    [levels    |-> [id \in element_ids(els) |-> 0],
     in_degree |-> InDegrees(els, rels),
     queue     |-> InitialQueue(els, InDegrees(els, rels))]

LevelsInitialize ==
    /\ pc = "levels_start"
    /\ LET st == LevelsStart(elements, relationships) IN
          /\ levels' = st.levels
          /\ in_degree' = st.in_degree
          /\ queue' = st.queue
    /\ dequeued' = [id \in element_ids(elements) |-> 0]
    /\ call' = [op |-> "_calculate_dependency_levels", arg |-> None]
    /\ pc' = "levels_loop"
    /\ UNCHANGED <<elements, relationships, raised, returned, errors, opt, arch, fd>>

LevelsDequeue ==
    /\ pc = "levels_loop"
    /\ queue # <<>>
    /\ LET st == DequeueOne(relationships,
                            [levels |-> levels, in_degree |-> in_degree, queue |-> queue])
       IN /\ levels' = st.levels
          /\ in_degree' = st.in_degree
          /\ queue' = st.queue
    /\ dequeued' = [dequeued EXCEPT ![Head(queue)] = @ + 1]
    /\ UNCHANGED <<elements, relationships, call, raised, returned, pc, errors, opt, arch, fd>>

LevelsReturn ==
    /\ pc = "levels_loop"
    /\ queue = <<>>
    /\ returned' = levels
    /\ pc' = "levels_done"
    /\ UNCHANGED <<elements, relationships, call, raised, errors, lv, arch, fd, opt>>

----------------------------------------------------------------------------
(* Strings: a str is a sequence of one-character strings *)

UpperCase == <<"A", "B", "C", "D", "E", "F", "G", "H", "I", "J", "K", "L", "M",
               "N", "O", "P", "Q", "R", "S", "T", "U", "V", "W", "X", "Y", "Z">>
LowerCase == <<"a", "b", "c", "d", "e", "f", "g", "h", "i", "j", "k", "l", "m",
               "n", "o", "p", "q", "r", "s", "t", "u", "v", "w", "x", "y", "z">>

\* str.lower()
lower(str) ==
    [i \in DOMAIN str |->
        IF \E k \in DOMAIN UpperCase : UpperCase[k] = str[i]
        THEN LowerCase[CHOOSE k \in DOMAIN UpperCase : UpperCase[k] = str[i]]
        ELSE str[i]]

\* needle in hay
Contains(hay, needle) ==
    \E i \in 0..(Len(hay) - Len(needle)) : SubSeq(hay, i + 1, i + Len(needle)) = needle

----------------------------------------------------------------------------
(* DiagramOptimizer._merge_relationship_labels *)

_merge_relationship_labels(label1, label2) ==
    IF label1 = <<>> THEN label2
    ELSE IF label2 = <<>> THEN label1
    ELSE IF label1 = label2 THEN label1
    ELSE IF Len(label2) > Len(label1) /\ Contains(lower(label2), lower(label1)) THEN label2
    ELSE IF Len(label1) > Len(label2) /\ Contains(lower(label1), lower(label2)) THEN label1
    ELSE label1 \o <<" ", "/", " ">> \o label2

\* one call of _merge_relationship_labels(label1, label2)
MergeLabels ==
    /\ pc = "merge_labels"
    /\ returned' = _merge_relationship_labels(call.arg[1], call.arg[2])
    /\ pc' = "labels_merged"
    /\ UNCHANGED <<elements, relationships, call, raised, errors, lv, arch, fd, opt>>

(* DiagramOptimizer._merge_duplicate_relationships *)

\* dict.update on property maps
PropertiesUpdate(properties, other) ==
    {p \in properties : \A q \in other : q[1] # p[1]} \cup other

MergeKeyWithKind(rel) == <<rel.source_id, rel.target_id, rel.relationship_type>>

\* key = (rel.source_id, rel.target_id)
MergeKey(rel) == <<rel.source_id, rel.target_id>>

RECURSIVE MergeLoop(_, _, _)
\* the loop over diagram.relationships from the i-th on; relationship_map is the
\* list of the dict's values in insertion order
MergeLoop(rels, relationship_map, i) ==
    IF i > Len(rels) THEN relationship_map
    ELSE LET rel == rels[i]
             at == {j \in DOMAIN relationship_map :
                        MergeKey(relationship_map[j]) = MergeKey(rel)}
         IN IF at # {}
            THEN LET j == CHOOSE j \in at : TRUE
                     existing == relationship_map[j]
                     merged ==
                         [existing EXCEPT
                            !.label = _merge_relationship_labels(existing.label, rel.label),
                            !.properties = PropertiesUpdate(existing.properties, rel.properties)]
                 IN MergeLoop(rels, [relationship_map EXCEPT ![j] = merged], i + 1)
            ELSE MergeLoop(rels, Append(relationship_map, rel), i + 1)

_merge_duplicate_relationships(rels) == MergeLoop(rels, <<>>, 1)

MergeDuplicates ==
    /\ pc = "merge_start"
    /\ before' = relationships
    /\ relationships' = _merge_duplicate_relationships(relationships)
    /\ call' = [op |-> "_merge_duplicate_relationships", arg |-> None]
    /\ pc' = "merged"
    /\ UNCHANGED <<elements, raised, returned, errors, lv, arch, fd, config, earlier, input, metadata>>

----------------------------------------------------------------------------
(* DiagramOptimizer._simplify_transitive_relationships *)

\* adjacency: source id -> set of target ids
Adjacency(rels) ==
    [source \in {rels[i].source_id : i \in DOMAIN rels} |->
        {rels[i].target_id : i \in {j \in DOMAIN rels : rels[j].source_id = source}}]

HasIndirectPathThroughTarget(adjacency, source, target) ==
    /\ source \in DOMAIN adjacency
    /\ \E intermediate \in adjacency[source] :
          /\ intermediate \in DOMAIN adjacency
          /\ target \in adjacency[intermediate]

\* the "Check if there's an indirect path" test of one relationship
HasIndirectPath(adjacency, source, target) ==
    /\ source \in DOMAIN adjacency
    /\ \E intermediate \in adjacency[source] :
          /\ intermediate # target
          /\ intermediate \in DOMAIN adjacency
          /\ target \in adjacency[intermediate]

to_remove(rels) ==
    {rels[i].id : i \in {j \in DOMAIN rels :
        HasIndirectPath(Adjacency(rels), rels[j].source_id, rels[j].target_id)}}

_simplify_transitive_relationships(rels) ==
    SelectSeq(rels, LAMBDA rel : rel.id \notin to_remove(rels))

SimplifyTransitive ==
    /\ pc = "simplify_start"
    /\ before' = relationships
    /\ relationships' = _simplify_transitive_relationships(relationships)
    /\ call' = [op |-> "_simplify_transitive_relationships", arg |-> None]
    /\ pc' = "simplified"
    /\ UNCHANGED <<elements, raised, returned, errors, lv, arch, fd, config, earlier, input, metadata>>

----------------------------------------------------------------------------
(* DiagramOptimizer._optimize_relationship_labels and _shorten_label *)

Whitespace == {" "}

RECURSIVE strip(_)
\* str.strip()
strip(str) ==
    IF str = <<>> THEN str
    ELSE IF Head(str) \in Whitespace THEN strip(Tail(str))
    ELSE IF str[Len(str)] \in Whitespace THEN strip(SubSeq(str, 1, Len(str) - 1))
    ELSE str

RECURSIVE replace(_, _, _)
\* str.replace(old, new), old non-empty
replace(str, old, new) ==
    IF Len(str) < Len(old) THEN str
    ELSE IF SubSeq(str, 1, Len(old)) = old
         THEN new \o replace(SubSeq(str, Len(old) + 1, Len(str)), old, new)
         ELSE <<Head(str)>> \o replace(Tail(str), old, new)

\* the shortenings dict, in insertion order
shortenings ==
    << <<<<"d", "e", "p", "e", "n", "d", "s", " ", "o", "n">>, <<"u", "s", "e", "s">>>>,
       <<<<"c", "o", "m", "m", "u", "n", "i", "c", "a", "t", "e", "s", " ", "w", "i", "t", "h">>, <<"c", "a", "l", "l", "s">>>>,
       <<<<"s", "e", "n", "d", "s", " ", "d", "a", "t", "a", " ", "t", "o">>, <<"s", "e", "n", "d", "s", " ", "t", "o">>>>,
       <<<<"r", "e", "c", "e", "i", "v", "e", "s", " ", "d", "a", "t", "a", " ", "f", "r", "o", "m">>, <<"g", "e", "t", "s", " ", "f", "r", "o", "m">>>>,
       <<<<"i", "n", "t", "e", "r", "a", "c", "t", "s", " ", "w", "i", "t", "h">>, <<"u", "s", "e", "s">>>> >>

RECURSIVE ShortenFrom(_, _)
\* the loop over shortenings.items() from the k-th item on, then the truncation
ShortenFrom(label, k) ==
    IF k > Len(shortenings)
    THEN IF Len(label) > 20
         THEN SubSeq(label, 1, 17) \o <<".", ".", ".">>
         ELSE label
    ELSE IF Contains(lower(label), shortenings[k][1])
         THEN replace(label, shortenings[k][1], shortenings[k][2])
         ELSE ShortenFrom(label, k + 1)

_shorten_label(label) == ShortenFrom(label, 1)

\* label_counts[label] for the normalised label of rel
LabelCount(rels, rel) ==
    Cardinality({i \in DOMAIN rels :
        strip(lower(rels[i].label)) = strip(lower(rel.label))})

\* label_counts[label] > self.config.max_relationship_labels * 0.3
IsCommonLabel(rels, rel, max_relationship_labels) ==
    10 * LabelCount(rels, rel) > 3 * max_relationship_labels

_optimize_relationship_labels(rels, max_relationship_labels) ==
    [i \in DOMAIN rels |->
        IF IsCommonLabel(rels, rels[i], max_relationship_labels)
        THEN [rels[i] EXCEPT !.label = _shorten_label(rels[i].label)]
        ELSE rels[i]]

(* DiagramOptimizer._optimize_relationships *)

_optimize_relationships(rels, cfg) ==
    LET merged == IF cfg.merge_duplicate_relationships
                  THEN _merge_duplicate_relationships(rels) ELSE rels
        simplified == IF cfg.simplify_transitive_relationships
                      THEN _simplify_transitive_relationships(merged) ELSE merged
    IN _optimize_relationship_labels(simplified, cfg.max_relationship_labels)

----------------------------------------------------------------------------
(* DiagramOptimizer._deep_copy_diagram *)

\* type(element)(id=..., ..., element_type=..., ...): the dataclasses derived from
\* C4Element declare element_type with init=False, so their constructors take no
\* element_type argument
CopyElementRaises(element) == element.cls # "C4Element"

CopyElementsButLast(els) == SubSeq(els, 1, Len(els) - 1)

\* new_diagram.elements after the "Copy elements" loop
CopyElements(els) == els

\* new_diagram.relationships after the "Copy relationships" loop
CopyRelationships(rels) ==
    [i \in DOMAIN rels |->
        [C4Relationship(rels[i].id, rels[i].source_id, rels[i].target_id,
                        rels[i].label, rels[i].relationship_type)
            EXCEPT !.properties = rels[i].properties]]

----------------------------------------------------------------------------
(* OptimizationConfig *)

canvas_width == 1200
canvas_height == 800
margin == 50
element_width == 120
element_height == 80
max_relationship_labels == 50
max_cluster_size == 8
min_element_distance == 100
max_optimization_iterations == 100

LayoutStrategy == {"hierarchical", "circular", "force_directed", "grid", "layered"}

\* OptimizationConfig(): every field at its default
OptimizationConfig ==
    [layout_strategy |-> "hierarchical",
     canvas_width |-> canvas_width,
     canvas_height |-> canvas_height,
     margin |-> margin,
     element_width |-> element_width,
     element_height |-> element_height,
     merge_duplicate_relationships |-> TRUE,
     simplify_transitive_relationships |-> TRUE,
     max_relationship_labels |-> max_relationship_labels,
     enable_clustering |-> TRUE,
     cluster_by_type |-> TRUE,
     cluster_by_responsibility |-> TRUE,
     max_cluster_size |-> max_cluster_size,
     min_element_distance |-> min_element_distance,
     max_optimization_iterations |-> max_optimization_iterations,
     force_threshold |-> [kind |-> "float", n |-> 1, d |-> 10]]

----------------------------------------------------------------------------
(* Property maps and C4Diagram lookups *)

HasKey(properties, key) == \E p \in properties : p[1] = key

\* properties.get(key, default)
Get(properties, key, default) ==
    IF HasKey(properties, key)
    THEN (CHOOSE p \in properties : p[1] = key)[2]
    ELSE default

\* properties[key] = value
Put(properties, key, value) ==
    {p \in properties : p[1] # key} \cup {<<key, value>>}

\* the position in els of get_element_by_id(element_id), or 0 for None
IndexOfElement(els, element_id) ==
    IF \E i \in DOMAIN els : els[i].id = element_id
    THEN CHOOSE i \in DOMAIN els :
            /\ els[i].id = element_id
            /\ \A j \in 1..(i - 1) : els[j].id # element_id
    ELSE 0

----------------------------------------------------------------------------
(* DiagramOptimizer._apply_clustering *)

RECURSIVE DistinctInOrder(_, _, _)
\* the keys of a dict filled with seq[1], seq[2], ...: by first occurrence
DistinctInOrder(seq, seen, i) ==
    IF i > Len(seq) THEN <<>>
    ELSE (IF seq[i] \in seen THEN <<>> ELSE <<seq[i]>>)
         \o DistinctInOrder(seq, seen \cup {seq[i]}, i + 1)

\* str.title() of an ElementType value
Title(element_type) ==
    CASE element_type = "person"    -> "Person"
      [] element_type = "system"    -> "System"
      [] element_type = "external_system" -> "External_System"
      [] element_type = "container" -> "Container"
      [] element_type = "component" -> "Component"
      [] element_type = "database"  -> "Database"
      [] element_type = "queue"     -> "Queue"
      [] element_type = "file_system" -> "File_System"

\* the ids of the elements of els whose key is k, in element order; key_of[i] is
\* the key of els[i]
IdsWithKey(els, key_of, k) ==
    LET at == SelectSeq([i \in DOMAIN els |-> i], LAMBDA i : key_of[i] = k)
    IN [j \in DOMAIN at |-> els[at[j]].id]

ClusterEveryElementType(els) ==
    LET key_of == [i \in DOMAIN els |-> els[i].element_type]
        keys == DistinctInOrder(key_of, {}, 1)
    IN [j \in DOMAIN keys |->
          [type |-> "element_type",
           name |-> <<Title(keys[j]), " Cluster">>,
           elements |-> IdsWithKey(els, key_of, keys[j])]]

_cluster_by_element_type(els) ==
    LET key_of == [i \in DOMAIN els |-> els[i].element_type]
        keys == DistinctInOrder(key_of, {}, 1)
        formed == SelectSeq(keys, LAMBDA k : Len(IdsWithKey(els, key_of, k)) >= 2)
    IN [j \in DOMAIN formed |->
          [type |-> "element_type",
           name |-> <<Title(formed[j]), " Cluster">>,
           elements |-> IdsWithKey(els, key_of, formed[j])]]

_cluster_by_responsibility(els, cfg) ==
    LET key_of == [i \in DOMAIN els |-> Get(els[i].properties, "responsibility", "unknown")]
        keys == DistinctInOrder(key_of, {}, 1)
        formed == SelectSeq(keys, LAMBDA k :
                      /\ Len(IdsWithKey(els, key_of, k)) >= 2
                      /\ Len(IdsWithKey(els, key_of, k)) <= cfg.max_cluster_size)
    IN [j \in DOMAIN formed |->
          [type |-> "responsibility",
           name |-> <<formed[j], " Components">>,
           elements |-> IdsWithKey(els, key_of, formed[j])]]

\* clusters, as collected before "Apply clustering information to elements"
Clusters(els, cfg) ==
    (IF cfg.cluster_by_type THEN _cluster_by_element_type(els) ELSE <<>>)
    \o (IF cfg.cluster_by_responsibility THEN _cluster_by_responsibility(els, cfg) ELSE <<>>)

\* len(diagram.metadata.get('clusters', []))
ClusterCount(meta) == IF meta.has_clusters THEN Len(meta.clusters) ELSE 0

\* the body of "for element_id in cluster['elements']" for one element id
MarkElement(els, element_id, cluster_id, cluster_type) ==
    LET i == IndexOfElement(els, element_id) IN
    IF i = 0 THEN els
    ELSE LET with_id == IF HasKey(els[i].properties, "cluster_id")
                        THEN els[i].properties
                        ELSE Put(els[i].properties, "cluster_id", cluster_id)
         IN [els EXCEPT ![i].properties = Put(with_id, "cluster_type", cluster_type)]

RECURSIVE MarkCluster(_, _, _, _, _)
MarkCluster(els, ids, cluster_id, cluster_type, k) ==
    IF k > Len(ids) THEN els
    ELSE MarkCluster(MarkElement(els, ids[k], cluster_id, cluster_type),
                     ids, cluster_id, cluster_type, k + 1)

RECURSIVE MarkClusters(_, _, _, _)
\* the "for cluster in clusters" loop from the k-th cluster on; the metadata is
\* not extended before the loop ends
MarkClusters(els, clusters, meta, k) ==
    IF k > Len(clusters) THEN els
    ELSE MarkClusters(
             MarkCluster(els, clusters[k].elements,
                         <<"cluster_", ClusterCount(meta)>>, clusters[k].type, 1),
             clusters, meta, k + 1)

\* diagram.metadata after "Store cluster information"
StoreClusters(meta, clusters) ==
    [has_clusters |-> TRUE,
     clusters |-> (IF meta.has_clusters THEN meta.clusters ELSE <<>>) \o clusters]

----------------------------------------------------------------------------
(* Floats, as exact rationals *)

RECURSIVE GCD(_, _)
GCD(m, n) == IF n = 0 THEN m ELSE GCD(n, m % n)

Abs(n) == IF n < 0 THEN -n ELSE n

\* the float n/d, d > 0, in lowest terms
Float(n, d) ==
    LET g == GCD(Abs(n), d) IN [kind |-> "float", n |-> n \div g, d |-> d \div g]

\* margin + index * spacing + spacing / 2, with spacing = extent / count
CellCentre(offset, extent, count, index) ==
    Float(2 * count * offset + (2 * index + 1) * extent, 2 * count)

----------------------------------------------------------------------------
(* DiagramOptimizer._apply_hierarchical_layout *)

hierarchy_levels(element_type) ==
    CASE element_type = "person" -> 0
      [] element_type \in {"system", "external_system"} -> 1
      [] element_type \in {"container", "database", "queue"} -> 2
      [] element_type = "component" -> 3
      [] OTHER -> 3

\* the elements before position i that are in the same group as els[i]
IndexInGroup(group_of, i) ==
    Cardinality({j \in 1..(i - 1) : group_of[j] = group_of[i]})

GroupSize(group_of, i) ==
    Cardinality({j \in DOMAIN group_of : group_of[j] = group_of[i]})

_apply_hierarchical_layout(els, cfg) ==
    LET level == [i \in DOMAIN els |-> hierarchy_levels(els[i].element_type)]
        levels_count == Max(Cardinality({level[i] : i \in DOMAIN els}), 1)
        height == cfg.canvas_height - 2 * cfg.margin
        width == cfg.canvas_width - 2 * cfg.margin
    IN [i \in DOMAIN els |->
          [els[i] EXCEPT
             !.x = CellCentre(cfg.margin, width, Max(GroupSize(level, i), 1),
                              IndexInGroup(level, i)),
             !.y = Float(cfg.margin * levels_count + level[i] * height, levels_count)]]

(* DiagramOptimizer._apply_circular_layout *)

\* center + radius * cos(i * angle_step) and center + radius * sin(i * angle_step)
\* for the i-th of count elements, left unevaluated
CircularCoordinate(axis, i, count) ==
    [kind |-> "circular", axis |-> axis, i |-> i, count |-> count]

_apply_circular_layout(els, cfg) ==
    [i \in DOMAIN els |->
        [els[i] EXCEPT !.x = CircularCoordinate("x", i - 1, Len(els)),
                       !.y = CircularCoordinate("y", i - 1, Len(els))]]

(* DiagramOptimizer._apply_force_directed_layout *)

\* Inside the pass a float is kept to two decimals: the integer k stands for
\* k / Scale, and every division and square root rounds toward zero.
Scale == 100

\* the float c to two decimals
Fixed(c) == (c.n * Scale) \div c.d

\* a / b rounded toward zero, b > 0
Quot(a, b) == IF a >= 0 THEN a \div b ELSE -((-a) \div b)

RECURSIVE SqrtFrom(_, _)
\* Newton's iteration downward from r >= sqrt(n)
SqrtFrom(n, r) ==
    LET next == (r + n \div r) \div 2
    IN IF next >= r THEN r ELSE SqrtFrom(n, next)

\* math.sqrt(n), rounded down
FloorSqrt(n) == IF n = 0 THEN 0 ELSE SqrtFrom(n, n)

\* str hashes are keyed by a random value drawn when the interpreter starts
HashSeeds == {"seed1", "seed2"}

\* hash(element.id) and hash(element.id + "y") under a seed
hash(string, seed) ==
    IF seed = "seed1"
    THEN CASE string = <<"a">> -> 3  [] string = <<"a", "y">> -> 27
           [] string = <<"b">> -> 12 [] string = <<"b", "y">> -> 25
           [] string = <<"c">> -> 41 [] string = <<"c", "y">> -> 58
    ELSE CASE string = <<"a">> -> 9  [] string = <<"a", "y">> -> 61
           [] string = <<"b">> -> 4  [] string = <<"b", "y">> -> 33
           [] string = <<"c">> -> 17 [] string = <<"c", "y">> -> 6

\* "Initialize random positions"; * and % bind before / and +
InitialPositions(els, cfg, seed) ==
    [i \in DOMAIN els |->
        IF els[i].x = NoCoordinate \/ els[i].y = NoCoordinate
        THEN [els[i] EXCEPT
                 !.x = Float(1000 * cfg.margin
                             + (((cfg.canvas_width - 2 * cfg.margin)
                                 * hash(<<els[i].id>>, seed)) % 1000), 1000),
                 !.y = Float(1000 * cfg.margin
                             + (((cfg.canvas_height - 2 * cfg.margin)
                                 * hash(<<els[i].id, "y">>, seed)) % 1000), 1000)]
        ELSE els[i]]

\* math.sqrt(dx*dx + dy*dy) + 0.01
Distance(dx, dy) == FloorSqrt(dx * dx + dy * dy) + 1

\* the pair (force * dx / distance, force * dy / distance) of the repulsive loop
Repulsion(cfg, dx, dy) ==
    LET distance == Distance(dx, dy)
        force == (cfg.min_element_distance * Scale * Scale * Scale)
                     \div (distance * distance)
    IN <<Quot(force * dx, distance), Quot(force * dy, distance)>>

\* the pair (force * dx / distance, force * dy / distance) of the attractive loop
Attraction(cfg, dx, dy) ==
    LET distance == Distance(dx, dy)
        force == distance \div cfg.min_element_distance
    IN <<Quot(force * dx, distance), Quot(force * dy, distance)>>

RECURSIVE SumPairs(_)
SumPairs(pairs) ==
    IF pairs = <<>> THEN <<0, 0>>
    ELSE LET rest == SumPairs(Tail(pairs))
         IN <<Head(pairs)[1] + rest[1], Head(pairs)[2] + rest[2]>>

\* what the repulsive loop adds to forces[els[i].id] for elem1 = els[i]
RepulsiveForce(els, cfg, i) ==
    SumPairs([j \in DOMAIN els |->
                IF i = j THEN <<0, 0>>
                ELSE Repulsion(cfg, Fixed(els[i].x) - Fixed(els[j].x),
                                    Fixed(els[i].y) - Fixed(els[j].y))])

\* what the attractive loop adds to forces[element_id] for the relationship rel
AttractiveForce(els, cfg, rel, element_id) ==
    LET elem1 == IndexOfElement(els, rel.source_id)
        elem2 == IndexOfElement(els, rel.target_id)
    IN IF elem1 = 0 \/ elem2 = 0 THEN <<0, 0>>
       ELSE LET pull == Attraction(cfg, Fixed(els[elem2].x) - Fixed(els[elem1].x),
                                        Fixed(els[elem2].y) - Fixed(els[elem1].y))
                to == (IF els[elem1].id = element_id THEN 1 ELSE 0)
                      - (IF els[elem2].id = element_id THEN 1 ELSE 0)
            IN <<to * pull[1], to * pull[2]>>

\* forces[element_id] when the two force loops are done
Force(els, rels, cfg, element_id) ==
    SumPairs([i \in DOMAIN els |->
                IF els[i].id = element_id THEN RepulsiveForce(els, cfg, i)
                ELSE <<0, 0>>]
             \o [k \in DOMAIN rels |-> AttractiveForce(els, cfg, rels[k], element_id)])

\* forces[element.id] for each element of the list
Forces(els, rels, cfg) == [i \in DOMAIN els |-> Force(els, rels, cfg, els[i].id)]

Min(m, n) == IF m <= n THEN m ELSE n

\* max(margin, min(extent - margin, coordinate))
Clamp(coordinate, extent, cfg) ==
    Max(cfg.margin * Scale, Min((extent - cfg.margin) * Scale, coordinate))

MaxForceOfFirstElement(forces) ==
    IF forces = <<>> THEN 0 ELSE Max(Abs(forces[1][1]), Abs(forces[1][2]))

RECURSIVE MaxForce(_)
\* max_force after the "Apply forces" loop
MaxForce(forces) ==
    IF forces = <<>> THEN 0
    ELSE Max(Max(Abs(Head(forces)[1]), Abs(Head(forces)[2])), MaxForce(Tail(forces)))

MoveUnclamped(els, forces, cfg) ==
    [i \in DOMAIN els |->
        [els[i] EXCEPT
            !.x = Float(Fixed(els[i].x) + Quot(forces[i][1], 10), Scale),
            !.y = Float(Fixed(els[i].y) + Quot(forces[i][2], 10), Scale)]]

\* the elements after "Apply forces": element.x += fx * 0.1, then the clamp
Move(els, forces, cfg) ==
    [i \in DOMAIN els |->
        [els[i] EXCEPT
            !.x = Float(Clamp(Fixed(els[i].x) + Quot(forces[i][1], 10),
                              cfg.canvas_width, cfg), Scale),
            !.y = Float(Clamp(Fixed(els[i].y) + Quot(forces[i][2], 10),
                              cfg.canvas_height, cfg), Scale)]]

\* max_force < self.config.force_threshold
Converged(force, cfg) == force * cfg.force_threshold.d < cfg.force_threshold.n * Scale

RECURSIVE ForceLoop(_, _, _, _)
\* "for iteration in range(max_optimization_iterations)" from the given
\* iteration on
ForceLoop(els, rels, cfg, done) ==
    IF done >= cfg.max_optimization_iterations THEN els
    ELSE LET forces == Forces(els, rels, cfg)
             moved == Move(els, forces, cfg)
         IN IF Converged(MaxForce(forces), cfg) THEN moved
            ELSE ForceLoop(moved, rels, cfg, done + 1)

_apply_force_directed_layout(els, rels, cfg, seed) ==
    ForceLoop(InitialPositions(els, cfg, seed), rels, cfg, 0)

\* the pass followed one loop iteration at a time
ForceInitialize ==
    /\ pc = "force_start"
    /\ call' = [op |-> "_apply_force_directed_layout", arg |-> None]
    /\ \E seed \in HashSeeds : elements' = InitialPositions(elements, config, seed)
    /\ iteration' = 0
    /\ max_force' = 0
    /\ converged' = FALSE
    /\ pc' = "force_loop"
    /\ UNCHANGED <<relationships, raised, returned, errors, lv, opt, arch, first_pass>>

\* one iteration of the for loop, up to its convergence check
ForceIterate ==
    /\ pc = "force_loop"
    /\ iteration < config.max_optimization_iterations
    /\ LET forces == Forces(elements, relationships, config) IN
          /\ max_force' = MaxForce(forces)
          /\ elements' = Move(elements, forces, config)
    /\ iteration' = iteration + 1
    /\ converged' = Converged(max_force', config)
    /\ pc' = IF converged' THEN "force_break" ELSE "force_loop"
    /\ UNCHANGED <<relationships, call, raised, returned, errors, lv, opt, arch, first_pass>>

\* return diagram, after break or when range() is exhausted
ForceReturn ==
    /\ \/ pc = "force_break"
       \/ pc = "force_loop" /\ iteration >= config.max_optimization_iterations
    /\ returned' = elements
    /\ pc' = "force_done"
    /\ UNCHANGED <<elements, relationships, call, raised, errors, lv, opt, arch, fd>>

\* the caller hands the diagram the pass returned to the pass once more
ForceAgain ==
    /\ pc = "force_done"
    /\ ~first_pass.done
    /\ first_pass' = [done |-> TRUE, elements |-> elements, converged |-> converged]
    /\ pc' = "force_start"
    /\ UNCHANGED <<elements, relationships, call, raised, returned, errors, lv, opt, arch,
                   iteration, max_force, converged>>

(* DiagramOptimizer._apply_grid_layout *)

\* int(math.sqrt(n))
IntSqrt(n) == CHOOSE r \in 0..n : r * r <= n /\ (r + 1) * (r + 1) > n

GridCols(n) == IntSqrt(n) + 1

GridRows(n) == (n + GridCols(n) - 1) \div GridCols(n)

_apply_grid_layout(els, cfg) ==
    LET cols == GridCols(Len(els))
        rows == GridRows(Len(els))
    IN [i \in DOMAIN els |->
          [els[i] EXCEPT
             !.x = CellCentre(cfg.margin, cfg.canvas_width - 2 * cfg.margin, cols,
                              (i - 1) % cols),
             !.y = CellCentre(cfg.margin, cfg.canvas_height - 2 * cfg.margin, rows,
                              (i - 1) \div cols)]]

(* DiagramOptimizer._apply_layered_layout *)

RECURSIVE RunLevels(_, _)
\* the while loop of _calculate_dependency_levels, run to its end
RunLevels(rels, st) ==
    IF st.queue = <<>> THEN st.levels ELSE RunLevels(rels, DequeueOne(rels, st))

_calculate_dependency_levels(els, rels) == RunLevels(rels, LevelsStart(els, rels))

_apply_layered_layout(els, rels, cfg) ==
    LET computed == _calculate_dependency_levels(els, rels)
        level == [i \in DOMAIN els |-> computed[els[i].id]]
        groups == Cardinality({level[i] : i \in DOMAIN els})
    IN [i \in DOMAIN els |->
          [els[i] EXCEPT
             !.x = CellCentre(cfg.margin, cfg.canvas_width - 2 * cfg.margin,
                              Max(GroupSize(level, i), 1), IndexInGroup(level, i)),
             !.y = CellCentre(cfg.margin, cfg.canvas_height - 2 * cfg.margin,
                              groups, level[i])]]

(* DiagramOptimizer._optimize_layout *)

\* 2 * math.pi / len(diagram.elements) and (...) / rows divide by zero
LayoutRaises(els, cfg) ==
    \/ cfg.layout_strategy = "circular" /\ Len(els) = 0
    \/ cfg.layout_strategy = "grid" /\ GridRows(Len(els)) = 0

_optimize_layout(els, rels, cfg, seed) ==
    CASE cfg.layout_strategy = "hierarchical" -> _apply_hierarchical_layout(els, cfg)
      [] cfg.layout_strategy = "circular" -> _apply_circular_layout(els, cfg)
      [] cfg.layout_strategy = "force_directed" ->
             _apply_force_directed_layout(els, rels, cfg, seed)
      [] cfg.layout_strategy = "grid" -> _apply_grid_layout(els, cfg)
      [] cfg.layout_strategy = "layered" -> _apply_layered_layout(els, rels, cfg)
      \* no branch of the if/elif chain matches: the diagram is returned as it came
      [] OTHER -> els

(* DiagramOptimizer._validate_optimization *)

\* the loop with "element.y = ..." left out
ApplyDefaultPositionsOnlyX(els, cfg) ==
    [i \in DOMAIN els |->
        IF els[i].x = NoCoordinate \/ els[i].y = NoCoordinate
        THEN [els[i] EXCEPT !.x = Float(2 * cfg.margin + cfg.element_width, 2)]
        ELSE els[i]]

\* the "Ensure all elements have positions" loop
ApplyDefaultPositions(els, cfg) ==
    [i \in DOMAIN els |->
        IF els[i].x = NoCoordinate \/ els[i].y = NoCoordinate
        THEN [els[i] EXCEPT !.x = Float(2 * cfg.margin + cfg.element_width, 2),
                            !.y = Float(2 * cfg.margin + cfg.element_height, 2)]
        ELSE els[i]]

----------------------------------------------------------------------------
(* DiagramOptimizer.optimize_diagram, pass by pass *)

\* optimized = self._deep_copy_diagram(diagram)
DeepCopyDiagram ==
    /\ pc = "optimize_diagram"
    /\ call' = [op |-> "_deep_copy_diagram", arg |-> None]
    /\ IF \E i \in DOMAIN input.elements : CopyElementRaises(input.elements[i])
       THEN /\ raised' = "TypeError"
            /\ pc' = "raised"
            /\ UNCHANGED <<elements, relationships, metadata>>
       ELSE /\ raised' = None
            /\ pc' = "copied"
            /\ elements' = CopyElements(input.elements)
            /\ relationships' = CopyRelationships(input.relationships)
            \* metadata.copy() is shallow: a 'clusters' list stays shared
            /\ metadata' = input.metadata
    /\ UNCHANGED <<returned, errors, lv, arch, fd, config, earlier, input, before>>

\* optimized = self._optimize_relationships(optimized)
OptimizeRelationships ==
    /\ pc = "copied"
    /\ call' = [op |-> "_optimize_relationships", arg |-> None]
    /\ before' = relationships
    /\ relationships' = _optimize_relationships(relationships, config)
    /\ pc' = "relationships_optimized"
    /\ UNCHANGED <<elements, raised, returned, errors, lv, arch, fd, config, earlier, input, metadata>>

\* optimized = self._apply_clustering(optimized)
ApplyClustering ==
    /\ pc = "relationships_optimized"
    /\ call' = [op |-> "_apply_clustering", arg |-> None]
    /\ IF ~config.enable_clustering
       THEN UNCHANGED <<elements, metadata, input>>
       ELSE LET clusters == Clusters(elements, config) IN
            /\ elements' = MarkClusters(elements, clusters, metadata, 1)
            /\ metadata' = StoreClusters(metadata, clusters)
            \* extend() acts on the list object, which the input diagram's
            \* metadata holds too when it had a 'clusters' entry
            /\ input' = IF input.metadata.has_clusters
                        THEN [input EXCEPT !.metadata = StoreClusters(@, clusters)]
                        ELSE input
    /\ pc' = "clustered"
    /\ UNCHANGED <<relationships, raised, returned, errors, lv, arch, fd, config, earlier, before>>

\* optimized = self._optimize_layout(optimized)
OptimizeLayout ==
    /\ pc = "clustered"
    /\ call' = [op |-> "_optimize_layout", arg |-> None]
    /\ IF LayoutRaises(elements, config)
       THEN /\ raised' = "ZeroDivisionError"
            /\ pc' = "raised"
            /\ UNCHANGED elements
       ELSE /\ \E seed \in HashSeeds :
                  elements' = _optimize_layout(elements, relationships, config, seed)
            /\ pc' = "laid_out"
            /\ UNCHANGED raised
    /\ UNCHANGED <<relationships, returned, errors, lv, arch, fd, config, earlier, input, metadata, before>>

\* optimized = self._validate_optimization(optimized)
ValidateOptimization ==
    /\ pc = "laid_out"
    /\ call' = [op |-> "_validate_optimization", arg |-> None]
    /\ errors' = validate(elements, relationships)
    /\ elements' = ApplyDefaultPositions(elements, config)
    /\ pc' = "optimization_validated"
    /\ UNCHANGED <<relationships, raised, returned, lv, arch, fd, config, earlier, input, metadata, before>>

\* return optimized
ReturnOptimized ==
    /\ pc = "optimization_validated"
    /\ call' = [op |-> "optimize_diagram", arg |-> None]
    /\ returned' = [elements |-> elements, relationships |-> relationships,
                    metadata |-> metadata]
    /\ pc' = "returned"
    /\ UNCHANGED <<elements, relationships, raised, errors, lv, arch, fd, config, earlier, input, metadata, before>>

----------------------------------------------------------------------------
(* Strings and paths of the architecture extractor *)

\* an Optional[str] that is None; the strings it stands in for are never empty
NoString == <<>>

\* str.upper()
upper(str) ==
    [i \in DOMAIN str |->
        IF \E k \in DOMAIN LowerCase : LowerCase[k] = str[i]
        THEN UpperCase[CHOOSE k \in DOMAIN LowerCase : LowerCase[k] = str[i]]
        ELSE str[i]]

IsCased(c) == c \in Range(UpperCase) \cup Range(LowerCase)

\* str.title(): a cased character is upper case after an uncased one (or at
\* the start) and lower case after a cased one
title(str) ==
    [i \in DOMAIN str |->
        IF i = 1 \/ ~IsCased(str[i - 1])
        THEN upper(<<str[i]>>)[1]
        ELSE lower(<<str[i]>>)[1]]

\* str.startswith(prefix), str.endswith(suffix)
startswith(str, prefix) ==
    Len(prefix) <= Len(str) /\ SubSeq(str, 1, Len(prefix)) = prefix

endswith(str, suffix) ==
    Len(suffix) <= Len(str)
        /\ SubSeq(str, Len(str) - Len(suffix) + 1, Len(str)) = suffix

RECURSIVE split(_, _)
\* str.split(sep) for a separator of one character
split(str, sep) ==
    IF \A i \in DOMAIN str : str[i] # sep THEN <<str>>
    ELSE LET i == CHOOSE k \in DOMAIN str :
                     str[k] = sep /\ \A j \in 1..(k - 1) : str[j] # sep
         IN <<SubSeq(str, 1, i - 1)>> \o split(SubSeq(str, i + 1, Len(str)), sep)

RECURSIVE join(_, _)
\* sep.join(strings)
join(sep, strings) ==
    IF strings = <<>> THEN <<>>
    ELSE IF Len(strings) = 1 THEN strings[1]
    ELSE strings[1] \o sep \o join(sep, Tail(strings))

\* pattern in ' '.join(strings).lower(), and pattern in str(strings).lower(),
\* for a set of strings: no pattern of the classifier holds a space, a quote
\* or a comma, so a match lies within one of the strings
InJoined(pattern, strings) ==
    \E string \in strings : Contains(lower(string), pattern)

\* any(keyword in str for keyword in keywords)
AnyIn(keywords, str) == \E keyword \in keywords : Contains(str, keyword)

\* a pathlib.Path is the sequence of its parts; str(path)
PathStr(path) == join(<<"/">>, path)

\* Path.name
PathName(path) == IF path = <<>> THEN <<>> ELSE path[Len(path)]

\* Path.stem: the name up to its last dot, unless that dot is first or last
PathStem(path) ==
    LET name == PathName(path)
        dots == {i \in DOMAIN name : name[i] = "."}
    IN IF dots = {} THEN name
       ELSE LET i == CHOOSE k \in dots : \A j \in dots : j <= k
            IN IF 1 < i /\ i < Len(name) THEN SubSeq(name, 1, i - 1) ELSE name

\* Path.parent.name
PathParentName(path) == IF Len(path) < 2 THEN <<>> ELSE path[Len(path) - 1]

\* CodeElement: the classifier and the extractor read its name only
CodeElement(name, type) == [name |-> name, type |-> type]

ModuleInfo(path, imports, classes, functions) ==
    [path |-> path, imports |-> imports, classes |-> classes,
     functions |-> functions, interfaces |-> <<>>]

----------------------------------------------------------------------------
(* ComponentClassifier._analyze_project_context *)

framework_patterns ==
    <<<<"f", "l", "a", "s", "k">>, <<"d", "j", "a", "n", "g", "o">>,
     <<"f", "a", "s", "t", "a", "p", "i">>, <<"s", "p", "r", "i", "n", "g">>,
     <<"e", "x", "p", "r", "e", "s", "s">>, <<"r", "e", "a", "c", "t">>,
     <<"a", "n", "g", "u", "l", "a", "r">>, <<"v", "u", "e">>>>

database_patterns ==
    {<<"s", "q", "l", "i", "t", "e">>, <<"m", "y", "s", "q", "l">>,
     <<"p", "o", "s", "t", "g", "r", "e", "s", "q", "l">>,
     <<"m", "o", "n", "g", "o", "d", "b">>, <<"r", "e", "d", "i", "s">>,
     <<"c", "a", "s", "s", "a", "n", "d", "r", "a">>,
     <<"d", "y", "n", "a", "m", "o", "d", "b">>}

api_patterns ==
    {<<"r", "e", "s", "t">>, <<"g", "r", "a", "p", "h", "q", "l">>, <<"g", "r", "p", "c">>,
     <<"s", "o", "a", "p">>, <<"a", "p", "i">>, <<"e", "n", "d", "p", "o", "i", "n", "t">>,
     <<"c", "o", "n", "t", "r", "o", "l", "l", "e", "r">>}

web_indicators == {<<"f", "l", "a", "s", "k">>, <<"d", "j", "a", "n", "g", "o">>,
     <<"f", "a", "s", "t", "a", "p", "i">>, <<"e", "x", "p", "r", "e", "s", "s">>,
     <<"s", "p", "r", "i", "n", "g", "-", "b", "o", "o", "t">>}

api_indicators == {<<"f", "a", "s", "t", "a", "p", "i">>,
     <<"f", "l", "a", "s", "k", "-", "r", "e", "s", "t", "f", "u", "l">>,
     <<"e", "x", "p", "r", "e", "s", "s">>,
     <<"s", "p", "r", "i", "n", "g", "-", "w", "e", "b">>}

desktop_indicators == {<<"t", "k", "i", "n", "t", "e", "r">>, <<"p", "y", "s", "i", "d", "e">>,
     <<"e", "l", "e", "c", "t", "r", "o", "n">>, <<"s", "w", "i", "n", "g">>}

ui_patterns == {<<"t", "k", "i", "n", "t", "e", "r">>, <<"p", "y", "s", "i", "d", "e">>,
     <<"r", "e", "a", "c", "t">>, <<"a", "n", "g", "u", "l", "a", "r">>, <<"v", "u", "e">>,
     <<"h", "t", "m", "l">>, <<"c", "s", "s">>, <<"j", "s">>}

all_imports(analysis) == UNION {analysis[i].imports : i \in DOMAIN analysis}

all_filenames(analysis) == {lower(PathName(analysis[i].path)) : i \in DOMAIN analysis}

_detect_project_type(imports, filenames) ==
    IF \E indicator \in web_indicators : InJoined(indicator, imports)
    THEN <<"w", "e", "b", "_", "a", "p", "p", "l", "i", "c", "a", "t", "i", "o", "n">>
    ELSE IF \E indicator \in api_indicators : InJoined(indicator, imports)
    THEN <<"a", "p", "i", "_", "s", "e", "r", "v", "i", "c", "e">>
    ELSE IF \E indicator \in desktop_indicators : InJoined(indicator, imports)
    THEN <<"d", "e", "s", "k", "t", "o", "p", "_", "a", "p", "p", "l", "i", "c", "a", "t", "i", "o", "n">>
    ELSE IF <<"s", "e", "t", "u", "p", ".", "p", "y">> \in filenames \/ <<"p", "y", "p", "r", "o", "j", "e", "c", "t", ".", "t", "o", "m", "l">> \in filenames
    THEN <<"l", "i", "b", "r", "a", "r", "y">>
    ELSE <<"a", "p", "p", "l", "i", "c", "a", "t", "i", "o", "n">>

\* the first framework of framework_patterns, in dict order, that the imports name
_detect_framework(imports) ==
    LET found == {k \in DOMAIN framework_patterns :
                      InJoined(framework_patterns[k], imports)}
    IN IF found = {} THEN NoString
       ELSE framework_patterns[CHOOSE k \in found : \A j \in found : k <= j]

\* _detect_database returns the first match in the iteration order of the set
\* database_patterns, which depends on the string hashes of the process: any
\* of these, or None when there is none
DatabaseTypes(imports) ==
    LET found == {db_type \in database_patterns : InJoined(db_type, imports)}
    IN IF found = {} THEN {NoString} ELSE found

_has_api_functionality(imports, analysis) ==
    \/ \E pattern \in api_patterns : InJoined(pattern, imports)
    \/ \E i \in DOMAIN analysis : \E k \in DOMAIN analysis[i].functions :
          AnyIn({<<"r", "o", "u", "t", "e">>, <<"e", "n", "d", "p", "o", "i", "n", "t">>,
     <<"a", "p", "i">>, <<"g", "e", "t">>, <<"p", "o", "s", "t">>},
                lower(analysis[i].functions[k].name))

_has_ui_functionality(imports, filenames) ==
    \E pattern \in ui_patterns :
        InJoined(pattern, imports) \/ InJoined(pattern, filenames)

\* repository_info.get('name', 'Unknown Project')
ProjectName(info) ==
    IF "name" \in DOMAIN info THEN info.name ELSE <<"U", "n", "k", "n", "o", "w", "n", " ", "P", "r", "o", "j", "e", "c", "t">>

_analyze_project_context(analysis, info, database_type) ==
    [project_name |-> ProjectName(info),
     project_type |-> _detect_project_type(all_imports(analysis), all_filenames(analysis)),
     framework |-> _detect_framework(all_imports(analysis)),
     database_type |-> database_type,
     has_api |-> _has_api_functionality(all_imports(analysis), analysis),
     has_ui |-> _has_ui_functionality(all_imports(analysis), all_filenames(analysis))]

----------------------------------------------------------------------------
(* ComponentClassifier.classify_architecture *)

\* classifier C4Component (component_classifier.py); metadata is a dict
ClassifiedComponent(name, type, description, technology, source_files, code_elements, meta) ==
    [name |-> name, type |-> type, description |-> description,
     technology |-> technology, source_files |-> source_files,
     code_elements |-> code_elements, metadata |-> meta]

\* metadata.get(key, default)
MetadataGet(meta, key, default) ==
    IF key \in DOMAIN meta THEN meta[key] ELSE default

\* dict[component.name] = component, on a dict kept as the list of its values in
\* insertion order: a key already present keeps its place and gets the new value
DictSet(dict, component) ==
    IF \E i \in DOMAIN dict : dict[i].name = component.name
    THEN [i \in DOMAIN dict |->
             IF dict[i].name = component.name THEN component ELSE dict[i]]
    ELSE Append(dict, component)

RECURSIVE DictUpdate(_, _)
\* dict.update(other)
DictUpdate(dict, other) ==
    IF other = <<>> THEN dict
    ELSE DictUpdate(DictSet(dict, Head(other)), Tail(other))

AllPaths(analysis) == {analysis[i].path : i \in DOMAIN analysis}

_identify_main_system(analysis, context) ==
    ClassifiedComponent(
        context.project_name, "software_system",
        title(replace(context.project_type, <<"_">>, <<" ">>))
            \o (IF context.framework # NoString
                THEN <<" ", "b", "u", "i", "l", "t", " ", "w", "i", "t", "h", " ">> \o title(context.framework) ELSE <<>>),
        context.framework, AllPaths(analysis), <<>>,
        [project_type |-> context.project_type, has_api |-> context.has_api,
         has_ui |-> context.has_ui])

_identify_containers(analysis, context) ==
    LET application ==
            IF context.project_type \in {<<"w", "e", "b", "_", "a", "p", "p", "l", "i", "c", "a", "t", "i", "o", "n">>, <<"a", "p", "i", "_", "s", "e", "r", "v", "i", "c", "e">>}
            THEN <<ClassifiedComponent(
                       context.project_name \o <<" ", "A", "p", "p", "l", "i", "c", "a", "t", "i", "o", "n">>, "container",
                       <<"M", "a", "i", "n", " ">> \o replace(context.project_type, <<"_">>, <<" ">>)
                           \o <<" ", "c", "o", "n", "t", "a", "i", "n", "e", "r">>,
                       context.framework, AllPaths(analysis), <<>>,
                       [container_type |-> <<"a", "p", "p", "l", "i", "c", "a", "t", "i", "o", "n">>])>>
            ELSE <<>>
        database ==
            IF context.database_type # NoString
            THEN <<ClassifiedComponent(
                       title(context.database_type) \o <<" ", "D", "a", "t", "a", "b", "a", "s", "e">>, "container",
                       <<"S", "t", "o", "r", "e", "s", " ", "a", "p", "p", "l", "i", "c", "a", "t", "i", "o", "n", " ", "d", "a", "t", "a">>, context.database_type, {}, <<>>,
                       [container_type |-> <<"d", "a", "t", "a", "b", "a", "s", "e">>])>>
            ELSE <<>>
        frontend ==
            IF context.has_ui /\ context.project_type = <<"a", "p", "i", "_", "s", "e", "r", "v", "i", "c", "e">>
            THEN <<ClassifiedComponent(
                       <<"W", "e", "b", " ", "F", "r", "o", "n", "t", "e", "n", "d">>, "container",
                       <<"U", "s", "e", "r", " ", "i", "n", "t", "e", "r", "f", "a", "c", "e", " ", "f", "o", "r", " ", "t", "h", "e", " ", "a", "p", "p", "l", "i", "c", "a", "t", "i", "o", "n">>,
                       <<"H", "T", "M", "L", "/", "C", "S", "S", "/", "J", "a", "v", "a", "S", "c", "r", "i", "p", "t">>, {}, <<>>,
                       [container_type |-> <<"f", "r", "o", "n", "t", "e", "n", "d">>])>>
            ELSE <<>>
    IN DictUpdate(<<>>, application \o database \o frontend)

\* the keys of the groups dict of _group_modules_by_function, in its order
groups ==
    <<<<"a", "u", "t", "h", "e", "n", "t", "i", "c", "a", "t", "i", "o", "n">>,
     <<"u", "s", "e", "r", "_", "m", "a", "n", "a", "g", "e", "m", "e", "n", "t">>,
     <<"d", "a", "t", "a", "_", "a", "c", "c", "e", "s", "s">>, <<"a", "p", "i">>,
     <<"b", "u", "s", "i", "n", "e", "s", "s", "_", "l", "o", "g", "i", "c">>,
     <<"u", "t", "i", "l", "i", "t", "i", "e", "s">>,
     <<"c", "o", "n", "f", "i", "g", "u", "r", "a", "t", "i", "o", "n">>,
     <<"m", "o", "d", "e", "l", "s">>,
     <<"c", "o", "n", "t", "r", "o", "l", "l", "e", "r", "s">>,
     <<"s", "e", "r", "v", "i", "c", "e", "s">>>>

\* the group _group_modules_by_function appends a module to
GroupOf(module_info) ==
    LET module_name == lower(PathStem(module_info.path))
        parent_dir == lower(PathParentName(module_info.path))
    IN IF AnyIn({<<"a", "u", "t", "h">>, <<"l", "o", "g", "i", "n">>,
     <<"s", "e", "s", "s", "i", "o", "n">>}, module_name) THEN <<"a", "u", "t", "h", "e", "n", "t", "i", "c", "a", "t", "i", "o", "n">>
       ELSE IF AnyIn({<<"u", "s", "e", "r">>, <<"p", "r", "o", "f", "i", "l", "e">>,
     <<"a", "c", "c", "o", "u", "n", "t">>}, module_name) THEN <<"u", "s", "e", "r", "_", "m", "a", "n", "a", "g", "e", "m", "e", "n", "t">>
       ELSE IF AnyIn({<<"m", "o", "d", "e", "l">>, <<"e", "n", "t", "i", "t", "y">>,
     <<"s", "c", "h", "e", "m", "a">>}, module_name) THEN <<"m", "o", "d", "e", "l", "s">>
       ELSE IF AnyIn({<<"c", "o", "n", "t", "r", "o", "l", "l", "e", "r">>, <<"v", "i", "e", "w">>,
     <<"h", "a", "n", "d", "l", "e", "r">>}, module_name) THEN <<"c", "o", "n", "t", "r", "o", "l", "l", "e", "r", "s">>
       ELSE IF AnyIn({<<"s", "e", "r", "v", "i", "c", "e">>, <<"b", "u", "s", "i", "n", "e", "s", "s">>,
     <<"l", "o", "g", "i", "c">>}, module_name) THEN <<"s", "e", "r", "v", "i", "c", "e", "s">>
       ELSE IF AnyIn({<<"a", "p", "i">>, <<"r", "e", "s", "t">>, <<"e", "n", "d", "p", "o", "i", "n", "t">>}, module_name) THEN <<"a", "p", "i">>
       ELSE IF AnyIn({<<"d", "a", "o">>, <<"r", "e", "p", "o", "s", "i", "t", "o", "r", "y">>, <<"d", "b">>,
     <<"d", "a", "t", "a", "b", "a", "s", "e">>}, module_name) THEN <<"d", "a", "t", "a", "_", "a", "c", "c", "e", "s", "s">>
       ELSE IF AnyIn({<<"c", "o", "n", "f", "i", "g">>, <<"s", "e", "t", "t", "i", "n", "g", "s">>,
     <<"e", "n", "v">>}, module_name) THEN <<"c", "o", "n", "f", "i", "g", "u", "r", "a", "t", "i", "o", "n">>
       ELSE IF AnyIn({<<"u", "t", "i", "l">>, <<"h", "e", "l", "p", "e", "r">>,
     <<"c", "o", "m", "m", "o", "n">>}, module_name) THEN <<"u", "t", "i", "l", "i", "t", "i", "e", "s">>
       ELSE IF AnyIn({<<"m", "o", "d", "e", "l">>, <<"e", "n", "t", "i", "t", "y">>}, parent_dir) THEN <<"m", "o", "d", "e", "l", "s">>
       ELSE IF AnyIn({<<"c", "o", "n", "t", "r", "o", "l", "l", "e", "r">>, <<"v", "i", "e", "w">>}, parent_dir) THEN <<"c", "o", "n", "t", "r", "o", "l", "l", "e", "r", "s">>
       ELSE IF AnyIn({<<"s", "e", "r", "v", "i", "c", "e">>, <<"b", "u", "s", "i", "n", "e", "s", "s">>}, parent_dir) THEN <<"s", "e", "r", "v", "i", "c", "e", "s">>
       ELSE <<"b", "u", "s", "i", "n", "e", "s", "s", "_", "l", "o", "g", "i", "c">>

RECURSIVE ModulesOf(_, _, _)
\* groups[group_name]: positions in analysis_results of the modules of the
\* group, in dict order
ModulesOf(analysis, group_name, i) ==
    IF i > Len(analysis) THEN <<>>
    ELSE (IF GroupOf(analysis[i]) = group_name THEN <<i>> ELSE <<>>)
         \o ModulesOf(analysis, group_name, i + 1)

\* the dict returned by _group_modules_by_function: the non-empty groups
_group_modules_by_function(analysis) ==
    LET all == [k \in DOMAIN groups |->
                   [name |-> groups[k], modules |-> ModulesOf(analysis, groups[k], 1)]]
    IN SelectSeq(all, LAMBDA group : group.modules # <<>>)

RECURSIVE CodeElementsOf(_, _)
CodeElementsOf(analysis, modules) ==
    IF modules = <<>> THEN <<>>
    ELSE LET module_info == analysis[Head(modules)]
         IN module_info.classes \o module_info.functions \o module_info.interfaces
                \o CodeElementsOf(analysis, Tail(modules))

RECURSIVE CodeComponentsOfFirstFile(_, _)
\* source_files holding only the file of the group's first module
CodeComponentsOfFirstFile(analysis, functional_groups) ==
    IF functional_groups = <<>> THEN <<>>
    ELSE LET group == Head(functional_groups)
             code_elements == CodeElementsOf(analysis, group.modules)
         IN (IF code_elements # <<>>
             THEN <<ClassifiedComponent(
                        title(group.name) \o <<" ", "C", "o", "m", "p", "o", "n", "e", "n", "t">>, "component",
                        <<"H", "a", "n", "d", "l", "e", "s", " ">> \o replace(group.name, <<"_">>, <<" ">>)
                            \o <<" ", "f", "u", "n", "c", "t", "i", "o", "n", "a", "l", "i", "t", "y">>,
                        NoString,
                        {analysis[Head(group.modules)].path},
                        code_elements,
                        [functional_area |-> group.name])>>
             ELSE <<>>)
            \o CodeComponentsOfFirstFile(analysis, Tail(functional_groups))

RECURSIVE CodeComponents(_, _)
CodeComponents(analysis, functional_groups) ==
    IF functional_groups = <<>> THEN <<>>
    ELSE LET group == Head(functional_groups)
             code_elements == CodeElementsOf(analysis, group.modules)
         IN (IF code_elements # <<>>
             THEN <<ClassifiedComponent(
                        title(group.name) \o <<" ", "C", "o", "m", "p", "o", "n", "e", "n", "t">>, "component",
                        <<"H", "a", "n", "d", "l", "e", "s", " ">> \o replace(group.name, <<"_">>, <<" ">>)
                            \o <<" ", "f", "u", "n", "c", "t", "i", "o", "n", "a", "l", "i", "t", "y">>,
                        NoString,
                        {analysis[i].path : i \in Range(group.modules)},
                        code_elements,
                        [functional_area |-> group.name])>>
             ELSE <<>>)
            \o CodeComponents(analysis, Tail(functional_groups))

_identify_code_components(analysis, context) ==
    DictUpdate(<<>>, CodeComponents(analysis, _group_modules_by_function(analysis)))

stdlib_modules ==
    {<<"o", "s">>, <<"s", "y", "s">>, <<"j", "s", "o", "n">>,
     <<"d", "a", "t", "e", "t", "i", "m", "e">>, <<"p", "a", "t", "h", "l", "i", "b">>,
     <<"r", "e">>, <<"c", "o", "l", "l", "e", "c", "t", "i", "o", "n", "s">>,
     <<"i", "t", "e", "r", "t", "o", "o", "l", "s">>,
     <<"f", "u", "n", "c", "t", "o", "o", "l", "s">>, <<"t", "y", "p", "i", "n", "g">>,
     <<"a", "b", "c">>, <<"d", "a", "t", "a", "c", "l", "a", "s", "s", "e", "s">>,
     <<"e", "n", "u", "m">>, <<"a", "s", "y", "n", "c", "i", "o">>,
     <<"t", "h", "r", "e", "a", "d", "i", "n", "g">>,
     <<"m", "u", "l", "t", "i", "p", "r", "o", "c", "e", "s", "s", "i", "n", "g">>,
     <<"l", "o", "g", "g", "i", "n", "g">>, <<"u", "n", "i", "t", "t", "e", "s", "t">>,
     <<"h", "t", "t", "p">>, <<"u", "r", "l", "l", "i", "b">>,
     <<"s", "o", "c", "k", "e", "t">>, <<"s", "s", "l">>, <<"e", "m", "a", "i", "l">>,
     <<"h", "t", "m", "l">>, <<"x", "m", "l">>, <<"s", "q", "l", "i", "t", "e", "3">>,
     <<"c", "s", "v">>, <<"c", "o", "n", "f", "i", "g", "p", "a", "r", "s", "e", "r">>,
     <<"a", "r", "g", "p", "a", "r", "s", "e">>, <<"m", "a", "t", "h">>,
     <<"r", "a", "n", "d", "o", "m">>}

_is_local_import(import_name) ==
    startswith(import_name, <<".">>) \/ Len(split(import_name, ".")) = 1

_is_standard_library(import_name) ==
    split(import_name, ".")[1] \in stdlib_modules

\* the dict system_patterns of _group_external_imports, in its order
system_patterns ==
    <<[name |-> <<"D", "a", "t", "a", "b", "a", "s", "e">>,
       patterns |-> {<<"s", "q", "l", "a", "l", "c", "h", "e", "m", "y">>,
     <<"p", "y", "m", "o", "n", "g", "o">>, <<"p", "s", "y", "c", "o", "p", "g", "2">>,
     <<"m", "y", "s", "q", "l">>, <<"r", "e", "d", "i", "s">>,
     <<"c", "a", "s", "s", "a", "n", "d", "r", "a">>}],
      [name |-> <<"W", "e", "b", " ", "F", "r", "a", "m", "e", "w", "o", "r", "k">>,
       patterns |-> {<<"f", "l", "a", "s", "k">>, <<"d", "j", "a", "n", "g", "o">>,
     <<"f", "a", "s", "t", "a", "p", "i">>, <<"t", "o", "r", "n", "a", "d", "o">>,
     <<"a", "i", "o", "h", "t", "t", "p">>}],
      [name |-> <<"H", "T", "T", "P", " ", "C", "l", "i", "e", "n", "t">>,
       patterns |-> {<<"r", "e", "q", "u", "e", "s", "t", "s">>, <<"h", "t", "t", "p", "x">>,
     <<"a", "i", "o", "h", "t", "t", "p">>, <<"u", "r", "l", "l", "i", "b", "3">>}],
      [name |-> <<"C", "l", "o", "u", "d", " ", "S", "e", "r", "v", "i", "c", "e", "s">>,
       patterns |-> {<<"b", "o", "t", "o", "3">>, <<"a", "z", "u", "r", "e">>,
     <<"g", "o", "o", "g", "l", "e", "-", "c", "l", "o", "u", "d">>,
     <<"k", "u", "b", "e", "r", "n", "e", "t", "e", "s">>}],
      [name |-> <<"M", "e", "s", "s", "a", "g", "e", " ", "Q", "u", "e", "u", "e">>,
       patterns |-> {<<"c", "e", "l", "e", "r", "y">>, <<"r", "a", "b", "b", "i", "t", "m", "q">>,
     <<"k", "a", "f", "k", "a">>, <<"r", "e", "d", "i", "s">>}],
      [name |-> <<"M", "o", "n", "i", "t", "o", "r", "i", "n", "g">>,
       patterns |-> {<<"p", "r", "o", "m", "e", "t", "h", "e", "u", "s">>,
     <<"d", "a", "t", "a", "d", "o", "g">>, <<"s", "e", "n", "t", "r", "y">>,
     <<"n", "e", "w", "r", "e", "l", "i", "c">>}],
      [name |-> <<"T", "e", "s", "t", "i", "n", "g">>,
       patterns |-> {<<"p", "y", "t", "e", "s", "t">>, <<"u", "n", "i", "t", "t", "e", "s", "t">>,
     <<"m", "o", "c", "k">>, <<"c", "o", "v", "e", "r", "a", "g", "e">>}]>>

\* the system_name that _group_external_imports files an import under
SystemOf(import_name) ==
    LET found == {k \in DOMAIN system_patterns :
                      AnyIn(system_patterns[k].patterns, lower(import_name))}
    IN IF found # {}
       THEN system_patterns[CHOOSE k \in found : \A j \in found : k <= j].name
       ELSE <<"E", "x", "t", "e", "r", "n", "a", "l", " ">> \o title(split(import_name, ".")[1]) \o <<" ", "S", "y", "s", "t", "e", "m">>

external_imports(analysis) ==
    {imp \in all_imports(analysis) :
        ~_is_local_import(imp) /\ ~_is_standard_library(imp)}

\* _group_external_imports walks a set: the groups come in the order in which
\* the walk meets their first import, which depends on the string hashes of
\* the process; every order of the groups is the outcome of some walk
SystemOrders(analysis) ==
    LET names == {SystemOf(imp) : imp \in external_imports(analysis)}
    IN {order \in [1..Cardinality(names) -> names] :
           \A i, j \in DOMAIN order : i # j => order[i] # order[j]}

_identify_external_systems(analysis, context, system_order) ==
    [k \in DOMAIN system_order |->
        ClassifiedComponent(
            system_order[k], "software_system",
            <<"E", "x", "t", "e", "r", "n", "a", "l", " ">> \o system_order[k] \o <<" ", "s", "y", "s", "t", "e", "m">>,
            NoString, {}, <<>>,
            [external |-> TRUE,
             imports |-> {imp \in external_imports(analysis) :
                             SystemOf(imp) = system_order[k]}])]

classify_architecture(analysis, info, database_type, system_order) ==
    LET context == _analyze_project_context(analysis, info, database_type)
        main_system == _identify_main_system(analysis, context)
        containers == _identify_containers(analysis, context)
        code_components == _identify_code_components(analysis, context)
        external_systems == _identify_external_systems(analysis, context, system_order)
    IN DictUpdate(DictUpdate(DictUpdate(DictSet(<<>>, main_system), containers),
                             code_components),
                  external_systems)

\* components = classifier.classify_architecture(analysis_results, repository_info)
ClassifyArchitecture ==
    /\ pc = "classify_architecture"
    /\ call' = [op |-> "classify_architecture", arg |-> None]
    /\ \E database_type \in DatabaseTypes(all_imports(analysis_results)) :
       \E system_order \in SystemOrders(analysis_results) :
           components' = classify_architecture(analysis_results, repository_info,
                                               database_type, system_order)
    /\ returned' = None
    /\ pc' = "classified"
    /\ UNCHANGED <<elements, relationships, raised, errors, lv, opt, fd,
                   analysis_results, repository_info, extracted>>

----------------------------------------------------------------------------
(* RelationshipExtractor.extract_relationships *)

database_operations ==
    [read |-> {<<"s", "e", "l", "e", "c", "t">>, <<"f", "i", "n", "d">>, <<"g", "e", "t">>,
     <<"f", "e", "t", "c", "h">>, <<"l", "o", "a", "d">>,
     <<"r", "e", "t", "r", "i", "e", "v", "e">>},
     write |-> {<<"i", "n", "s", "e", "r", "t">>, <<"c", "r", "e", "a", "t", "e">>,
     <<"s", "a", "v", "e">>, <<"u", "p", "d", "a", "t", "e">>,
     <<"d", "e", "l", "e", "t", "e">>, <<"r", "e", "m", "o", "v", "e">>}]

\* extractor C4Relationship (relationship_extractor.py)
ExtractedRelationship(source, target, relationship_type, description, technology, protocol, meta) ==
    [source |-> source, target |-> target, relationship_type |-> relationship_type,
     description |-> description, technology |-> technology, protocol |-> protocol,
     metadata |-> meta]

NoDict == <<>>

RECURSIVE Flatten(_)
\* the concatenation of a list of lists
Flatten(lists) == IF lists = <<>> THEN <<>> ELSE Head(lists) \o Flatten(Tail(lists))

\* <<x, y>> for x in xs for y in ys, in loop order
LoopPairs(xs, ys) ==
    [k \in 1..(Len(xs) * Len(ys)) |->
        <<xs[((k - 1) \div Len(ys)) + 1], ys[((k - 1) % Len(ys)) + 1]>>]

\* analysis_results.get(str(source_file)) is not None; the keys of
\* analysis_results are the str() of the module paths
HasModule(analysis, source_file) ==
    \E i \in DOMAIN analysis : PathStr(analysis[i].path) = PathStr(source_file)

ModuleAt(analysis, source_file) ==
    analysis[CHOOSE i \in DOMAIN analysis :
                 PathStr(analysis[i].path) = PathStr(source_file)]

\* the modules of analysis_results among component.source_files
ModulesIn(component, analysis) ==
    {ModuleAt(analysis, source_file) :
        source_file \in {f \in component.source_files : HasModule(analysis, f)}}

\* _create_module_component_mapping(components).get(module_path): the last
\* component of kind component that lists the module, or None
SourceComponent(dict, module_info) ==
    LET owners == {i \in DOMAIN dict :
                      /\ dict[i].type = "component"
                      /\ \E f \in dict[i].source_files :
                            PathStr(f) = PathStr(module_info.path)}
    IN IF owners = {} THEN NoString
       ELSE dict[CHOOSE i \in owners : \A j \in owners : j <= i].name

\* the first loop without its "component.type == C4ComponentType.COMPONENT" test
FindNodeByImport(import_name, dict, analysis) ==
    LET local == {i \in DOMAIN dict :
                     \E module_info \in ModulesIn(dict[i], analysis) :
                        \/ import_name = PathStem(module_info.path)
                        \/ endswith(import_name,
                                    <<".">> \o PathStem(module_info.path))}
        external == {i \in DOMAIN dict :
                        /\ MetadataGet(dict[i].metadata, "external", FALSE)
                        /\ import_name \in MetadataGet(dict[i].metadata, "imports", {})}
    IN IF local # {} THEN dict[CHOOSE i \in local : \A j \in local : i <= j].name
       ELSE IF external # {}
       THEN dict[CHOOSE i \in external : \A j \in external : i <= j].name
       ELSE NoString

_find_component_by_import(import_name, dict, analysis) ==
    LET local == {i \in DOMAIN dict :
                     /\ dict[i].type = "component"
                     /\ \E module_info \in ModulesIn(dict[i], analysis) :
                           \/ import_name = PathStem(module_info.path)
                           \/ endswith(import_name,
                                       <<".">> \o PathStem(module_info.path))}
        external == {i \in DOMAIN dict :
                        /\ MetadataGet(dict[i].metadata, "external", FALSE)
                        /\ import_name \in MetadataGet(dict[i].metadata, "imports", {})}
    IN IF local # {} THEN dict[CHOOSE i \in local : \A j \in local : i <= j].name
       ELSE IF external # {}
       THEN dict[CHOOSE i \in external : \A j \in external : i <= j].name
       ELSE NoString

RECURSIVE ImportRelationships(_, _, _, _)
\* the inner loop of _extract_dependency_relationships over the imports of one
\* module, taken in the order imports
ImportRelationships(dict, analysis, source_component, imports) ==
    IF imports = <<>> THEN <<>>
    ELSE LET import_name == Head(imports)
             target_component == _find_component_by_import(import_name, dict, analysis)
         IN (IF target_component # NoString /\ target_component # source_component
             THEN <<ExtractedRelationship(
                        source_component, target_component, "depends_on",
                        <<"I", "m", "p", "o", "r", "t", "s", " ">> \o import_name, NoString, NoString,
                        [import |-> import_name])>>
             ELSE <<>>)
            \o ImportRelationships(dict, analysis, source_component, Tail(imports))

\* module_info.imports is a set: the loop over it runs in an order that depends
\* on the string hashes of the process; import_order[i] is the order taken for
\* the i-th module
ImportOrders(analysis) ==
    LET orders(imports) ==
            {order \in [1..Cardinality(imports) -> imports] :
                \A i, j \in DOMAIN order : i # j => order[i] # order[j]}
    IN {import_order \in [DOMAIN analysis ->
                             UNION {orders(analysis[i].imports) : i \in DOMAIN analysis}] :
           \A i \in DOMAIN analysis : import_order[i] \in orders(analysis[i].imports)}

_extract_dependency_relationships(dict, analysis, import_order) ==
    Flatten([i \in DOMAIN analysis |->
        LET source_component == SourceComponent(dict, analysis[i])
        IN IF source_component = NoString THEN <<>>
           ELSE ImportRelationships(dict, analysis, source_component, import_order[i])])

OfType(dict, type) == SelectSeq(dict, LAMBDA comp : comp.type = type)

_extract_containment_relationships(dict) ==
    LET systems == SelectSeq(OfType(dict, "software_system"),
                       LAMBDA system : ~MetadataGet(system.metadata, "external", FALSE))
        containers == OfType(dict, "container")
        applications == SelectSeq(containers, LAMBDA container :
                            MetadataGet(container.metadata, "container_type", NoString)
                                = <<"a", "p", "p", "l", "i", "c", "a", "t", "i", "o", "n">>)
        code_components == OfType(dict, "component")
        includes(pair) ==
            ExtractedRelationship(pair[1].name, pair[2].name, "includes",
                                  <<"C", "o", "n", "t", "a", "i", "n", "s", " ">> \o pair[2].name, NoString, NoString, NoDict)
        system_pairs == LoopPairs(systems, containers)
        container_pairs == LoopPairs(applications, code_components)
    IN [k \in DOMAIN system_pairs |-> includes(system_pairs[k])]
       \o [k \in DOMAIN container_pairs |-> includes(container_pairs[k])]

_extract_api_relationships(dict, analysis) ==
    LET api_components == SelectSeq(dict, LAMBDA comp :
            Contains(lower(MetadataGet(comp.metadata, "functional_area", <<>>)), <<"a", "p", "i">>))
        frontend_components == SelectSeq(dict, LAMBDA comp :
            MetadataGet(comp.metadata, "container_type", NoString) = <<"f", "r", "o", "n", "t", "e", "n", "d">>)
        pairs == LoopPairs(frontend_components, api_components)
    IN [k \in DOMAIN pairs |->
           ExtractedRelationship(pairs[k][1].name, pairs[k][2].name, "uses",
                                 <<"M", "a", "k", "e", "s", " ", "A", "P", "I", " ", "c", "a", "l", "l", "s">>, <<"R", "E", "S", "T", "/", "J", "S", "O", "N">>, <<"H", "T", "T", "P", "S">>, NoDict)]

_has_database_operations(component, operation_type, analysis) ==
    \E module_info \in ModulesIn(component, analysis) :
        \/ \E k \in DOMAIN module_info.functions :
              AnyIn(database_operations[operation_type],
                    lower(module_info.functions[k].name))
        \/ \E k \in DOMAIN module_info.classes :
              AnyIn(database_operations[operation_type],
                    lower(module_info.classes[k].name))

_extract_database_relationships(dict, analysis) ==
    LET db_components == SelectSeq(dict, LAMBDA comp :
            MetadataGet(comp.metadata, "container_type", NoString) = <<"d", "a", "t", "a", "b", "a", "s", "e">>)
        data_components == SelectSeq(dict, LAMBDA comp :
            Contains(lower(MetadataGet(comp.metadata, "functional_area", <<>>)), <<"d", "a", "t", "a">>))
        pairs == LoopPairs(data_components, db_components)
    IN Flatten([k \in DOMAIN pairs |->
           (IF _has_database_operations(pairs[k][1], "read", analysis)
            THEN <<ExtractedRelationship(pairs[k][1].name, pairs[k][2].name, "reads_from",
                       <<"R", "e", "a", "d", "s", " ", "d", "a", "t", "a">>, pairs[k][2].technology, NoString, NoDict)>>
            ELSE <<>>)
           \o
           (IF _has_database_operations(pairs[k][1], "write", analysis)
            THEN <<ExtractedRelationship(pairs[k][1].name, pairs[k][2].name, "writes_to",
                       <<"W", "r", "i", "t", "e", "s", " ", "d", "a", "t", "a">>, pairs[k][2].technology, NoString, NoDict)>>
            ELSE <<>>)])

_get_component_imports(component, analysis) ==
    UNION {module_info.imports : module_info \in ModulesIn(component, analysis)}

_extract_external_relationships(dict, analysis) ==
    LET external_systems == SelectSeq(dict, LAMBDA comp :
            MetadataGet(comp.metadata, "external", FALSE))
        internal_components == SelectSeq(dict, LAMBDA comp :
            ~MetadataGet(comp.metadata, "external", FALSE) /\ comp.type = "component")
        pairs == LoopPairs(internal_components, external_systems)
    IN Flatten([k \in DOMAIN pairs |->
           IF MetadataGet(pairs[k][2].metadata, "imports", {})
                  \cap _get_component_imports(pairs[k][1], analysis) # {}
           THEN <<ExtractedRelationship(pairs[k][1].name, pairs[k][2].name, "uses",
                      <<"U", "s", "e", "s", " ">> \o pairs[k][2].name \o <<" ", "s", "e", "r", "v", "i", "c", "e", "s">>, NoString, NoString,
                      [external |-> TRUE])>>
           ELSE <<>>])

\* the names collected in target_names are not used: the check is whether an
\* import of the source contains the stem of a module of the target
_has_method_calls(source_comp, target_comp, analysis) ==
    /\ source_comp.source_files # {}
    /\ \E target_module \in ModulesIn(target_comp, analysis) :
          \E imp \in _get_component_imports(source_comp, analysis) :
              Contains(imp, PathStem(target_module.path))

_has_inheritance(source_comp, target_comp, analysis) ==
    LET target_class_names ==
            UNION {{module_info.classes[k].name : k \in DOMAIN module_info.classes} :
                       module_info \in ModulesIn(target_comp, analysis)}
    IN \E module_info \in ModulesIn(source_comp, analysis) :
          \E k \in DOMAIN module_info.classes :
              \E target_name \in target_class_names :
                  /\ Contains(lower(module_info.classes[k].name), lower(target_name))
                  /\ target_name # module_info.classes[k].name

_extract_code_relationships(dict, analysis) ==
    LET code_components == SelectSeq(dict, LAMBDA comp :
            comp.type = "component" /\ comp.code_elements # <<>>)
        pairs == LoopPairs(code_components, code_components)
    IN Flatten([k \in DOMAIN pairs |->
           IF pairs[k][1] = pairs[k][2] THEN <<>>
           ELSE (IF _has_method_calls(pairs[k][1], pairs[k][2], analysis)
                 THEN <<ExtractedRelationship(pairs[k][1].name, pairs[k][2].name, "calls",
                            <<"C", "a", "l", "l", "s", " ", "m", "e", "t", "h", "o", "d", "s">>, NoString, NoString,
                            [code_relationship |-> TRUE])>>
                 ELSE <<>>)
                \o
                (IF _has_inheritance(pairs[k][1], pairs[k][2], analysis)
                 THEN <<ExtractedRelationship(pairs[k][1].name, pairs[k][2].name, "extends",
                            <<"E", "x", "t", "e", "n", "d", "s", "/", "i", "n", "h", "e", "r", "i", "t", "s", " ", "f", "r", "o", "m">>, NoString, NoString,
                            [code_relationship |-> TRUE])>>
                 ELSE <<>>)])

\* key = (rel.source, rel.target, rel.relationship_type)
RelationshipKey(rel) == <<rel.source, rel.target, rel.relationship_type>>

RECURSIVE DeduplicateFrom(_, _)
DeduplicateFrom(rels, seen) ==
    IF rels = <<>> THEN <<>>
    ELSE LET key == RelationshipKey(Head(rels))
         IN IF key \in seen THEN DeduplicateFrom(Tail(rels), seen)
            ELSE <<Head(rels)>> \o DeduplicateFrom(Tail(rels), seen \cup {key})

RECURSIVE DeduplicateKeepingLast(_)
DeduplicateKeepingLast(rels) ==
    IF rels = <<>> THEN <<>>
    ELSE (IF \E k \in 2..Len(rels) : RelationshipKey(rels[k]) = RelationshipKey(rels[1])
          THEN <<>> ELSE <<Head(rels)>>)
         \o DeduplicateKeepingLast(Tail(rels))

_deduplicate_relationships(rels) == DeduplicateFrom(rels, {})

\* relationships = []; relationships.extend(self._extract_dependency_relationships(...))
ExtractDependency ==
    /\ pc = "classified"
    /\ call' = [op |-> "_extract_dependency_relationships", arg |-> None]
    /\ \E import_order \in ImportOrders(analysis_results) :
           extracted' = _extract_dependency_relationships(components, analysis_results,
                                                          import_order)
    /\ pc' = "dependency_extracted"
    /\ UNCHANGED <<elements, relationships, raised, returned, errors, lv, opt, fd,
                   analysis_results, repository_info, components>>

\* relationships.extend(self._extract_containment_relationships(components))
ExtractContainment ==
    /\ pc = "dependency_extracted"
    /\ call' = [op |-> "_extract_containment_relationships", arg |-> None]
    /\ extracted' = extracted \o _extract_containment_relationships(components)
    /\ pc' = "containment_extracted"
    /\ UNCHANGED <<elements, relationships, raised, returned, errors, lv, opt, fd,
                   analysis_results, repository_info, components>>

\* relationships.extend(self._extract_api_relationships(...))
ExtractApi ==
    /\ pc = "containment_extracted"
    /\ call' = [op |-> "_extract_api_relationships", arg |-> None]
    /\ extracted' = extracted \o _extract_api_relationships(components, analysis_results)
    /\ pc' = "api_extracted"
    /\ UNCHANGED <<elements, relationships, raised, returned, errors, lv, opt, fd,
                   analysis_results, repository_info, components>>

\* relationships.extend(self._extract_database_relationships(...))
ExtractDatabase ==
    /\ pc = "api_extracted"
    /\ call' = [op |-> "_extract_database_relationships", arg |-> None]
    /\ extracted' = extracted
                        \o _extract_database_relationships(components, analysis_results)
    /\ pc' = "database_extracted"
    /\ UNCHANGED <<elements, relationships, raised, returned, errors, lv, opt, fd,
                   analysis_results, repository_info, components>>

\* relationships.extend(self._extract_external_relationships(...))
ExtractExternal ==
    /\ pc = "database_extracted"
    /\ call' = [op |-> "_extract_external_relationships", arg |-> None]
    /\ extracted' = extracted
                        \o _extract_external_relationships(components, analysis_results)
    /\ pc' = "external_extracted"
    /\ UNCHANGED <<elements, relationships, raised, returned, errors, lv, opt, fd,
                   analysis_results, repository_info, components>>

\* relationships.extend(self._extract_code_relationships(...))
ExtractCode ==
    /\ pc = "external_extracted"
    /\ call' = [op |-> "_extract_code_relationships", arg |-> None]
    /\ extracted' = extracted \o _extract_code_relationships(components, analysis_results)
    /\ pc' = "code_extracted"
    /\ UNCHANGED <<elements, relationships, raised, returned, errors, lv, opt, fd,
                   analysis_results, repository_info, components>>

\* return self._deduplicate_relationships(relationships)
Deduplicate ==
    /\ pc = "code_extracted"
    /\ call' = [op |-> "_deduplicate_relationships", arg |-> None]
    /\ before' = extracted
    /\ extracted' = _deduplicate_relationships(extracted)
    /\ pc' = "deduplicated"
    /\ UNCHANGED <<elements, relationships, raised, returned, errors, lv, fd,
                   config, input, metadata, earlier,
                   analysis_results, repository_info, components>>

----------------------------------------------------------------------------
(* Specifications *)

\* no level computation has run
LevelsIdle ==
    /\ levels = <<>>
    /\ in_degree = <<>>
    /\ queue = <<>>
    /\ dequeued = <<>>

\* no architecture extraction has run
ExtractorIdle ==
    /\ analysis_results = None
    /\ repository_info = None
    /\ components = <<>>
    /\ extracted = <<>>

\* no force-directed pass is being followed step by step
ForceIdle ==
    /\ iteration = 0
    /\ max_force = 0
    /\ converged = FALSE
    /\ first_pass = [done |-> FALSE, elements |-> <<>>, converged |-> FALSE]

\* no optimizer is at work
OptimizerIdle ==
    /\ config = None
    /\ input = None
    /\ metadata = None
    /\ before = None
    /\ earlier = [done |-> FALSE, input |-> None, returned |-> None]

Init ==
    /\ elements = <<>>
    /\ relationships = <<>>
    /\ call = [op |-> "new", arg |-> None]
    /\ raised = None
    /\ returned = None
    /\ pc = "idle"
    /\ errors = <<>>
    /\ LevelsIdle
    /\ ExtractorIdle
    /\ ForceIdle
    /\ OptimizerIdle

Next ==
    \/ \E element \in ElementInputs : add_element(element)
    \/ \E relationship \in RelationshipInputs : add_relationship(relationship)
    \/ \E element_id \in ElementIds : remove_element(element_id)
    \/ get_statistics

Spec == Init /\ [][Next]_vars

\* C4Diagram(elements=..., relationships=...): the dataclass constructor takes
\* both lists as given
InitValidate ==
    /\ elements \in SeqsUpTo(ElementInputs, MaxValidateElements)
    /\ relationships \in SeqsUpTo(RelationshipInputs, MaxValidateRelationships)
    /\ call = [op |-> "new", arg |-> None]
    /\ raised = None
    /\ returned = None
    /\ pc = "built"
    /\ errors = <<>>
    /\ LevelsIdle
    /\ ExtractorIdle
    /\ ForceIdle
    /\ OptimizerIdle

NextValidate == Validate

SpecValidate == InitValidate /\ [][NextValidate]_vars

\* the relationship graphs over elements a, b, c: the elements in any order, each
\* relationship between two of them, with cycles, self-loops and parallel edges
NameOf(id) ==
    CASE id = "a" -> "Controller" [] id = "b" -> "Service" [] id = "c" -> "Repository"
      [] id = "d" -> "Gateway"

LayoutElement(id) == C4Element(id, NameOf(id), "component")

ElementLists(ids) ==
    {els \in [1..Cardinality(ids) -> {LayoutElement(id) : id \in ids}] :
        \A i, j \in DOMAIN els : i # j => els[i] # els[j]}

RelationshipIdAt(i) == <<"r", i>>

RelationshipLists(ids, n) ==
    UNION {
      {[i \in 1..k |-> C4Relationship(RelationshipIdAt(i), e[i][1], e[i][2], <<>>, "uses")] :
          e \in [1..k -> ids \X ids]} : k \in 0..n}

InitLevels ==
    /\ \E ids \in SUBSET LayoutElementIds :
          /\ ids # {}
          /\ elements \in ElementLists(ids)
          /\ relationships \in RelationshipLists(ids, MaxLevelRelationships)
    /\ call = [op |-> "new", arg |-> None]
    /\ raised = None
    /\ returned = None
    /\ pc = "levels_start"
    /\ errors = <<>>
    /\ LevelsIdle
    /\ ExtractorIdle
    /\ ForceIdle
    /\ OptimizerIdle

NextLevels ==
    \/ LevelsInitialize
    \/ LevelsDequeue
    \/ LevelsReturn

SpecLevels == InitLevels /\ [][NextLevels]_vars

\* relationship lists between elements a and b in which pairs repeat with other
\* labels, kinds and properties
Label(relationship_type) ==
    CASE relationship_type = "uses"  -> <<"u", "s", "e", "s">>
      [] relationship_type = "calls" -> <<"c", "a", "l", "l", "s">>

MergeRelationshipAt(i, source_id, target_id, relationship_type, properties) ==
    [C4Relationship(RelationshipIdAt(i), source_id, target_id,
                    Label(relationship_type), relationship_type)
        EXCEPT !.properties = properties]

MergeRelationshipLists(n) ==
    UNION {
      {[i \in 1..k |-> MergeRelationshipAt(i, e[i][1][1], e[i][1][2], e[i][2], e[i][3])] :
          e \in [1..k -> {<<"a", "b">>, <<"b", "a">>} \X RelationshipTypes
                          \X {{}, {<<"protocol", "HTTPS">>}}]} : k \in 0..n}

InitMerge ==
    /\ elements = <<LayoutElement("a"), LayoutElement("b")>>
    /\ relationships \in MergeRelationshipLists(MaxMergeRelationships)
    /\ call = [op |-> "new", arg |-> None]
    /\ raised = None
    /\ returned = None
    /\ pc = "merge_start"
    /\ errors = <<>>
    /\ LevelsIdle
    /\ ExtractorIdle
    /\ ForceIdle
    /\ OptimizerIdle

NextMerge == MergeDuplicates

SpecMerge == InitMerge /\ [][NextMerge]_vars

InitTransitive ==
    /\ elements = <<LayoutElement("a"), LayoutElement("b"), LayoutElement("c")>>
    /\ relationships \in RelationshipLists(LayoutElementIds, MaxTransitiveRelationships)
    /\ call = [op |-> "new", arg |-> None]
    /\ raised = None
    /\ returned = None
    /\ pc = "simplify_start"
    /\ errors = <<>>
    /\ LevelsIdle
    /\ ExtractorIdle
    /\ ForceIdle
    /\ OptimizerIdle

NextTransitive == SimplifyTransitive

SpecTransitive == InitTransitive /\ [][NextTransitive]_vars

\* pairs of labels over a small alphabet with both cases of one letter: equal
\* labels, labels differing in case only, one label inside the other, unrelated
\* labels, empty labels
LabelCharacters == {"a", "A", "b"}

LabelPairs ==
    SeqsUpTo(LabelCharacters, MaxLabelLen) \X SeqsUpTo(LabelCharacters, MaxLabelLen)

InitLabels ==
    /\ elements = <<>>
    /\ relationships = <<>>
    /\ \E labels \in LabelPairs :
          call = [op |-> "_merge_relationship_labels", arg |-> labels]
    /\ raised = None
    /\ returned = None
    /\ pc = "merge_labels"
    /\ errors = <<>>
    /\ LevelsIdle
    /\ ExtractorIdle
    /\ ForceIdle
    /\ OptimizerIdle

NextLabels == MergeLabels

SpecLabels == InitLabels /\ [][NextLabels]_vars

\* inputs of the force-directed pass on a canvas of 102 by 12 with margin 1
At(element, x, y) == [element EXCEPT !.x = Float(x, Scale), !.y = Float(y, Scale)]

ForceConfigs ==
    {[OptimizationConfig EXCEPT !.layout_strategy = "force_directed",
                                !.canvas_width = 102, !.canvas_height = 12,
                                !.margin = 1,
                                !.min_element_distance = distance,
                                !.force_threshold = threshold,
                                !.max_optimization_iterations = iterations] :
        distance \in {1, min_element_distance},
        threshold \in {Float(1, 10), Float(50, 1)},
        iterations \in {0, 1, MaxForceIterations}}

\* a, b, c placed on the line y = 5, a and b at one point or 0.1 apart
LineElements ==
    {<<At(LayoutElement("a"), 500, 500), At(LayoutElement("b"), bx, 500),
       At(LayoutElement("c"), cx, 500)>> : bx \in {500, 510}, cx \in {520, 900}}

LineRelationships ==
    {<<>>,
     <<C4Relationship(RelationshipIdAt(1), "a", "c", <<>>, "uses")>>,
     <<C4Relationship(RelationshipIdAt(1), "a", "c", <<>>, "uses"),
       C4Relationship(RelationshipIdAt(2), "c", "b", <<>>, "uses")>>}

\* a and b, each without coordinates, inside the canvas or outside of it
Placements(element) ==
    {element, At(element, 500, 500), At(element, 0, 2000)}

FreeElements ==
    {<<a, b>> : a \in Placements(LayoutElement("a")), b \in Placements(LayoutElement("b"))}

FreeRelationships ==
    {<<>>, <<C4Relationship(RelationshipIdAt(1), "a", "b", <<>>, "uses")>>}

InitForce ==
    /\ \/ elements \in LineElements /\ relationships \in LineRelationships
       \/ elements \in FreeElements /\ relationships \in FreeRelationships
    /\ config \in ForceConfigs
    /\ input = None
    /\ metadata = None
    /\ before = None
    /\ earlier = [done |-> FALSE, input |-> None, returned |-> None]
    /\ call = [op |-> "new", arg |-> None]
    /\ raised = None
    /\ returned = None
    /\ pc = "force_start"
    /\ errors = <<>>
    /\ LevelsIdle
    /\ ExtractorIdle
    /\ ForceIdle

NextForce ==
    \/ ForceInitialize
    \/ ForceIterate
    \/ ForceReturn
    \/ ForceAgain

SpecForce == InitForce /\ [][NextForce]_vars

\* diagrams handed to optimize_diagram, each one built by add_element and
\* add_relationship calls
NoMetadata == [has_clusters |-> FALSE, clusters |-> <<>>]

\* the metadata left by an earlier clustering pass
EarlierMetadata ==
    [has_clusters |-> TRUE,
     clusters |-> <<[type |-> "element_type", name |-> <<"Component", " Cluster">>,
                     elements |-> <<"a", "b">>]>>]

Diagram(els, rels, meta) == [elements |-> els, relationships |-> rels, metadata |-> meta]

\* three plain components with every relationship list between them, under each
\* layout strategy, with the two relationship passes on or off
GraphInputs ==
    {Diagram(<<LayoutElement("a"), LayoutElement("b"), LayoutElement("c")>>, rels, NoMetadata) :
        rels \in RelationshipLists(LayoutElementIds, MaxOptimizeRelationships)}

\* the force-directed strategy is run on a canvas of 102 by 12 with margin 1,
\* which keeps its squared distances small, for a few iterations; the other
\* strategies on the default canvas
ConfigFor(strategy) ==
    IF strategy = "force_directed"
    THEN [OptimizationConfig EXCEPT !.canvas_width = 102, !.canvas_height = 12,
                                    !.margin = 1,
                                    !.max_optimization_iterations = MaxForceIterations]
    ELSE OptimizationConfig

GraphConfigs ==
    {[ConfigFor(strategy) EXCEPT !.layout_strategy = strategy,
                                !.merge_duplicate_relationships = merge,
                                !.simplify_transitive_relationships = simplify] :
        strategy \in LayoutStrategy, merge \in BOOLEAN, simplify \in BOOLEAN}

\* element i of a diagram is one of: a plain component, a plain component with
\* a responsibility, a plain person, a C4Person
ElementVariants(id) ==
    {C4Element(id, NameOf(id), "component"),
     [C4Element(id, NameOf(id), "component") EXCEPT
          !.properties = {<<"responsibility", "data access">>}],
     C4Element(id, NameOf(id), "person"),
     C4Person(id, NameOf(id))}

ElementIdAt == <<"a", "b", "c">>

\* the chain a -> b -> c over the elements present
ChainRelationships(n) ==
    [i \in 1..(IF n = 0 THEN 0 ELSE n - 1) |->
        C4Relationship(RelationshipIdAt(i), ElementIdAt[i], ElementIdAt[i + 1], <<>>, "uses")]

ElementInputsOfLength(n) ==
    {els \in [1..n -> UNION {ElementVariants(id) : id \in LayoutElementIds}] :
        \A i \in 1..n : els[i].id = ElementIdAt[i]}

ClusterInputs ==
    {Diagram(els, ChainRelationships(Len(els)), meta) :
        els \in UNION {ElementInputsOfLength(n) : n \in 0..3},
        meta \in {NoMetadata, EarlierMetadata}}

ClusterConfigs ==
    {[ConfigFor(strategy) EXCEPT !.layout_strategy = strategy,
                                !.enable_clustering = flags[1],
                                !.cluster_by_type = flags[2],
                                !.cluster_by_responsibility = flags[3],
                                !.max_cluster_size = size] :
        strategy \in LayoutStrategy,
        flags \in {<<FALSE, TRUE, TRUE>>, <<TRUE, TRUE, TRUE>>,
                   <<TRUE, TRUE, FALSE>>, <<TRUE, FALSE, TRUE>>},
        size \in {max_cluster_size, 2}}

\* two components with relationships whose labels the shortening table or the
\* truncation rewrites, under a max_relationship_labels that makes every label
\* a common one
LongLabels ==
    {<<"d", "e", "p", "e", "n", "d", "s", " ", "o", "n">>, <<"D", "e", "p", "e", "n", "d", "s", " ", "O", "n">>, <<"s", "e", "n", "d", "s", " ", "d", "a", "t", "a", " ", "t", "o", " ", "t", "h", "e", " ", "r", "e", "p", "o", "s", "i", "t", "o", "r", "y">>}

LabelInputs ==
    {Diagram(<<LayoutElement("a"), LayoutElement("b")>>,
             <<C4Relationship(RelationshipIdAt(1), "a", "b", l1, "depends_on"),
               C4Relationship(RelationshipIdAt(2), "b", "a", l2, "uses")>>,
             NoMetadata) :
        l1 \in LongLabels, l2 \in LongLabels \cup {<<>>}}

LabelConfigs == {[OptimizationConfig EXCEPT !.max_relationship_labels = 3]}

\* four plain components without relationships, for the grid of a perfect square
SquareInputs ==
    {Diagram(<<LayoutElement("a"), LayoutElement("b"), LayoutElement("c"), LayoutElement("d")>>,
             <<>>, NoMetadata)}

SquareConfigs == {[OptimizationConfig EXCEPT !.layout_strategy = "grid"]}

\* layout_strategy is an unchecked dataclass field: a configuration built with
\* the plain string 'grid' holds a value that equals no LayoutStrategy member
UncheckedConfigs == {[OptimizationConfig EXCEPT !.layout_strategy = "'grid'"]}

InitOptimize ==
    /\ \/ input \in GraphInputs /\ config \in GraphConfigs
       \/ input \in ClusterInputs /\ config \in ClusterConfigs
       \/ input \in LabelInputs /\ config \in LabelConfigs
       \/ input \in ClusterInputs /\ config \in UncheckedConfigs
       \/ input \in SquareInputs /\ config \in SquareConfigs
    /\ elements = <<>>
    /\ relationships = <<>>
    /\ metadata = NoMetadata
    /\ before = <<>>
    /\ earlier = [done |-> FALSE, input |-> input, returned |-> None]
    /\ call = [op |-> "optimize_diagram", arg |-> None]
    /\ raised = None
    /\ returned = None
    /\ pc = "optimize_diagram"
    /\ errors = <<>>
    /\ LevelsIdle
    /\ ExtractorIdle
    /\ ForceIdle

\* a second run, possibly of another process, of optimize_diagram on a diagram
\* identical to the one the first run was given, with the same configuration
OptimizeAgain ==
    /\ pc = "returned"
    /\ ~earlier.done
    /\ earlier' = [done |-> TRUE, input |-> earlier.input, returned |-> returned]
    /\ input' = earlier.input
    /\ elements' = <<>>
    /\ relationships' = <<>>
    /\ metadata' = NoMetadata
    /\ before' = <<>>
    /\ call' = [op |-> "optimize_diagram", arg |-> None]
    /\ returned' = None
    /\ pc' = "optimize_diagram"
    /\ UNCHANGED <<raised, errors, lv, arch, fd, config>>

NextOptimize ==
    \/ DeepCopyDiagram
    \/ OptimizeRelationships
    \/ ApplyClustering
    \/ OptimizeLayout
    \/ ValidateOptimization
    \/ ReturnOptimized
    \/ OptimizeAgain

SpecOptimize == InitOptimize /\ [][NextOptimize]_vars

\* classify_architecture followed by extract_relationships, as
\* ArchitectureAnalyzer runs them, on up to MaxModules module summaries
Class(name) == CodeElement(name, "class")

Function(name) == CodeElement(name, "function")

ModuleCatalogue ==
    <<ModuleInfo(<<<<"c", "o", "n", "t", "r", "o", "l", "l", "e", "r", ".", "p", "y">>>>, {<<"s", "e", "r", "v", "i", "c", "e">>}, <<Class(<<"C", "o", "n", "t", "r", "o", "l", "l", "e", "r">>)>>, <<>>),
      ModuleInfo(<<<<"s", "e", "r", "v", "i", "c", "e", ".", "p", "y">>>>, {<<"r", "e", "p", "o", "s", "i", "t", "o", "r", "y">>}, <<Class(<<"S", "e", "r", "v", "i", "c", "e">>)>>, <<>>),
      ModuleInfo(<<<<"r", "e", "p", "o", "s", "i", "t", "o", "r", "y", ".", "p", "y">>>>, {}, <<Class(<<"R", "e", "p", "o", "s", "i", "t", "o", "r", "y">>)>>, <<>>),
      ModuleInfo(<<<<"w", "e", "b">>, <<"v", "i", "e", "w", ".", "p", "y">>>>, {<<"a", "p", "p", ".", "s", "e", "r", "v", "i", "c", "e">>, <<"s", "q", "l", "a", "l", "c", "h", "e", "m", "y", ".", "o", "r", "m">>},
                 <<>>, <<Function(<<"g", "e", "t", "_", "v", "i", "e", "w">>)>>),
      ModuleInfo(<<<<"d", "a", "o", ".", "p", "y">>>>, {<<"s", "q", "l", "a", "l", "c", "h", "e", "m", "y", ".", "o", "r", "m">>, <<"s", "q", "l", "a", "l", "c", "h", "e", "m", "y", ".", "s", "q", "l">>},
                 <<Class(<<"B", "a", "s", "e", "R", "e", "p", "o", "s", "i", "t", "o", "r", "y">>)>>, <<Function(<<"f", "i", "n", "d", "_", "a", "l", "l">>), Function(<<"s", "a", "v", "e">>)>>),
      ModuleInfo(<<<<"a", "p", "p", ".", "p", "y">>>>, {<<"f", "l", "a", "s", "k", ".", "a", "p", "p">>, <<"m", "y", "s", "q", "l", ".", "r", "e", "d", "i", "s">>}, <<>>, <<>>),
      ModuleInfo(<<<<"a", "p", "i", ".", "j", "s">>>>, {<<"s", "p", "r", "i", "n", "g", "-", "w", "e", "b">>}, <<>>, <<Function(<<"f", "e", "t", "c", "h", "_", "i", "t", "e", "m", "s">>)>>)>>

RECURSIVE Ascending(_)
Ascending(S) ==
    IF S = {} THEN <<>>
    ELSE LET m == CHOOSE x \in S : \A y \in S : x <= y
         IN <<m>> \o Ascending(S \ {m})

Reverse(s) == [i \in DOMAIN s |-> s[Len(s) + 1 - i]]

\* analysis_results dicts: modules of the catalogue in its order or in the
\* reverse order
AnalysisInputs ==
    LET picks == {Ascending(S) : S \in {T \in SUBSET DOMAIN ModuleCatalogue :
                                           Cardinality(T) <= MaxModules}}
    IN {[i \in DOMAIN p |-> ModuleCatalogue[p[i]]] :
           p \in picks \cup {Reverse(q) : q \in picks}}

\* two modules of one functional group, only the second of which declares
\* anything
MixedGroupInput ==
    <<ModuleInfo(<<<<"a", "p", "p", ".", "p", "y">>>>, {<<"f", "l", "a", "s", "k", ".", "a", "p", "p">>, <<"m", "y", "s", "q", "l", ".", "r", "e", "d", "i", "s">>}, <<>>, <<>>),
      ModuleInfo(<<<<"m", "a", "i", "n", ".", "p", "y">>>>, {}, <<>>, <<Function(<<"m", "a", "i", "n">>)>>)>>

\* a module whose file name holds two dots, imported by a module of another
\* functional group
DottedStemInput ==
    <<ModuleInfo(<<<<"u", "s", "e", "r", ".", "t", "e", "s", "t", ".", "j", "s">>>>, {}, <<>>, <<Function(<<"t", "e", "s", "t", "_", "u", "s", "e", "r">>)>>),
      ModuleInfo(<<<<"r", "u", "n", "n", "e", "r", ".", "p", "y">>>>, {<<"s", "u", "i", "t", "e", ".", "u", "s", "e", "r", ".", "t", "e", "s", "t">>}, <<>>, <<Function(<<"r", "u", "n">>)>>)>>

RepositoryInfos ==
    {[name |-> <<"s", "h", "o", "p">>], [name |-> <<"D", "a", "t", "a", "b", "a", "s", "e">>], [name |-> <<"S", "e", "r", "v", "i", "c", "e", "s", " ", "C", "o", "m", "p", "o", "n", "e", "n", "t">>],
     [url |-> <<"h", "t", "t", "p", "s", ":", "/", "/", "g", "i", "t", "h", "u", "b", ".", "c", "o", "m", "/", "o", "/", "r">>]}

InitExtract ==
    /\ analysis_results \in AnalysisInputs \cup {MixedGroupInput, DottedStemInput}
    /\ repository_info \in RepositoryInfos
    /\ components = <<>>
    /\ extracted = <<>>
    /\ elements = <<>>
    /\ relationships = <<>>
    /\ call = [op |-> "new", arg |-> None]
    /\ raised = None
    /\ returned = None
    /\ pc = "classify_architecture"
    /\ errors = <<>>
    /\ LevelsIdle
    /\ ForceIdle
    /\ OptimizerIdle

NextExtract ==
    \/ ClassifyArchitecture
    \/ ExtractDependency
    \/ ExtractContainment
    \/ ExtractApi
    \/ ExtractDatabase
    \/ ExtractExternal
    \/ ExtractCode
    \/ Deduplicate

SpecExtract == InitExtract /\ [][NextExtract]_vars

----------------------------------------------------------------------------
(* The three Diagram invariants of the data model *)

NoTwoElementsShareId(els) ==
    \A i, j \in DOMAIN els : i # j => els[i].id # els[j].id

NoTwoElementsShareKindName(els) ==
    \A i, j \in DOMAIN els :
        i # j => <<els[i].element_type, els[i].name>> # <<els[j].element_type, els[j].name>>

ReferencesPresent(els, rels) ==
    \A i \in DOMAIN rels :
        /\ rels[i].source_id \in element_ids(els)
        /\ rels[i].target_id \in element_ids(els)

----------------------------------------------------------------------------
(* Claims about the Diagram container *)

\* C1: after any sequence of add_element, add_relationship and remove_element
\* calls, failing ones included, every relationship of the diagram has a source
\* id and a target id that are ids of elements currently in the element list.
C1_ReferentialIntegrity == ReferencesPresent(elements, relationships)

\* a remove_element call took an element away and a relationship survived it
C1_Witness ==
    /\ call.op = "remove_element"
    /\ returned = TRUE
    /\ Len(elements) = 1
    /\ Len(relationships) >= 1

\* C2: add_element of an element whose (kind, name) pair is already in the
\* diagram raises and leaves the list unchanged, so no two elements of a diagram
\* built by add_element calls share the pair (kind, name).
C2_NoTwoElementsShareKindName == NoTwoElementsShareKindName(elements)

\* C3: add_relationship with a source id or a target id that is not the id of an
\* element currently in the diagram raises and leaves the relationship list and
\* the element list unchanged.
C3_DanglingRelationshipRejected ==
    [][ ( /\ call'.op = "add_relationship"
          /\ \/ call'.arg.source_id \notin element_ids(elements)
             \/ call'.arg.target_id \notin element_ids(elements) )
        => ( /\ raised' = "ValueError"
             /\ relationships' = relationships
             /\ elements' = elements ) ]_vars

\* an add_relationship whose source is present and whose target is not has been
\* rejected by a diagram that holds a relationship already
C3_Witness ==
    /\ call.op = "add_relationship"
    /\ raised = "ValueError"
    /\ call.arg.source_id \in element_ids(elements)
    /\ call.arg.target_id \notin element_ids(elements)
    /\ Len(relationships) >= 1

\* C4: add_element of an element whose id is already in the diagram raises and
\* leaves the element list unchanged, so after any sequence of add_element and
\* remove_element calls no two elements share an id.
C4_UniqueElementIds ==
    /\ []NoTwoElementsShareId(elements)
    /\ [][ ( /\ call'.op = "add_element"
             /\ call'.arg.id \in element_ids(elements) )
           => ( /\ raised' = "ValueError"
                /\ elements' = elements ) ]_vars

\* an add_element with the id of a present element, and another name and kind
\* than that element's, has been rejected
C4_Witness ==
    /\ call.op = "add_element"
    /\ raised = "ValueError"
    /\ \E i \in DOMAIN elements :
          /\ elements[i].id = call.arg.id
          /\ elements[i].name # call.arg.name
          /\ elements[i].element_type # call.arg.element_type

\* C5: validate() returns an empty list if and only if no two elements share an
\* id, no two elements share the pair (kind, name), and every relationship's
\* source and target ids are in the element list.
C5_ValidateChecksAllThree ==
    pc = "validated" =>
        ( errors = <<>> <=>
            /\ NoTwoElementsShareId(elements)
            /\ NoTwoElementsShareKindName(elements)
            /\ ReferencesPresent(elements, relationships) )

----------------------------------------------------------------------------
(* Claims about the layered-layout level computation *)

\* the ids reachable from the ids of S along relationships (S included)
RECURSIVE ReachableFrom(_, _)
ReachableFrom(S, rels) ==
    LET more == S \cup {rels[i].target_id : i \in {j \in DOMAIN rels : rels[j].source_id \in S}}
    IN IF more = S THEN S ELSE ReachableFrom(more, rels)

Successors(id, rels) == {rels[i].target_id : i \in {j \in DOMAIN rels : rels[j].source_id = id}}

Acyclic(els, rels) ==
    \A id \in element_ids(els) : id \notin ReachableFrom(Successors(id, rels), rels)

ZeroInDegree(els, rels) ==
    {id \in element_ids(els) : \A i \in DOMAIN rels : rels[i].target_id # id}

\* C9: on an acyclic relationship graph over at least one element the level
\* computation gives level 0 to every element with zero in-degree and, for every
\* relationship s -> t, level(t) > level(s).
C9_LevelsIncreaseAlongEdges ==
    (pc = "levels_done" /\ Acyclic(elements, relationships)) =>
        /\ \A id \in ZeroInDegree(elements, relationships) : returned[id] = 0
        /\ \A i \in DOMAIN relationships :
              returned[relationships[i].target_id] > returned[relationships[i].source_id]

\* an acyclic graph of three relationships, with a path of two edges and the
\* direct edge beside it, has been levelled 0, 1, 2
C9_Witness ==
    /\ pc = "levels_done"
    /\ Acyclic(elements, relationships)
    /\ Len(relationships) = 3
    /\ \E i, j, k \in DOMAIN relationships :
          /\ relationships[i].target_id = relationships[j].source_id
          /\ relationships[k].source_id = relationships[i].source_id
          /\ relationships[k].target_id = relationships[j].target_id
          /\ returned[relationships[i].source_id] = 0
          /\ returned[relationships[j].source_id] = 1
          /\ returned[relationships[j].target_id] = 2

\* C10: on any relationship graph over the diagram's elements (cycles,
\* self-loops and parallel edges included) the level computation terminates,
\* pops each element from the queue at most once, and leaves every element that
\* is not reachable from a zero-in-degree element at level 0.
C10_LevelsTerminate ==
    /\ pc \in {"levels_loop", "levels_done"} =>
          \A id \in element_ids(elements) : dequeued[id] <= 1
    /\ pc # "levels_done" => ENABLED NextLevels
    /\ pc = "levels_done" =>
          \A id \in element_ids(elements) :
              id \notin ReachableFrom(ZeroInDegree(elements, relationships), relationships)
                  => returned[id] = 0

\* the computation ended on a graph with a cycle, in which one element was never
\* reached from the zero-in-degree elements and another was popped at level 1
C10_Witness ==
    /\ pc = "levels_done"
    /\ ~Acyclic(elements, relationships)
    /\ ZeroInDegree(elements, relationships) # {}
    /\ \E id \in element_ids(elements) :
          id \notin ReachableFrom(ZeroInDegree(elements, relationships), relationships)
    /\ \E id \in element_ids(elements) : dequeued[id] = 1 /\ returned[id] = 1

----------------------------------------------------------------------------
(* Claims about the relationship passes of the optimizer *)

Pairs(rels) == {<<rels[i].source_id, rels[i].target_id>> : i \in DOMAIN rels}

\* the first relationship of rels between source and target
FirstOfPair(rels, pair) ==
    rels[CHOOSE i \in DOMAIN rels :
            /\ <<rels[i].source_id, rels[i].target_id>> = pair
            /\ \A j \in 1..(i - 1) : <<rels[j].source_id, rels[j].target_id>> # pair]

\* C6: merge-duplicates leaves exactly one relationship for each (source id,
\* target id) pair of the input, whatever the relation kinds; the survivor is
\* the first relationship of that pair in input order; and of two relationships
\* (A,B) labelled "uses" and "calls" the survivor is labelled "uses / calls".
C6_MergeKeepsOnePerPair ==
    pc = "merged" =>
        /\ Pairs(relationships) = Pairs(before)
        /\ Len(relationships) = Cardinality(Pairs(before))
        /\ \A i \in DOMAIN relationships :
              LET first == FirstOfPair(before, <<relationships[i].source_id,
                                                 relationships[i].target_id>>)
              IN /\ relationships[i].id = first.id
                 /\ relationships[i].relationship_type = first.relationship_type
        /\ \A i, j \in DOMAIN relationships :
              i < j => \E k, l \in DOMAIN before :
                          /\ k < l
                          /\ before[k].id = relationships[i].id
                          /\ before[l].id = relationships[j].id
        /\ ( /\ Len(before) = 2
             /\ before[1].source_id = before[2].source_id
             /\ before[1].target_id = before[2].target_id
             /\ before[1].label = <<"u", "s", "e", "s">>
             /\ before[2].label = <<"c", "a", "l", "l", "s">> )
           => relationships[1].label =
                  <<"u", "s", "e", "s", " ", "/", " ", "c", "a", "l", "l", "s">>

\* (A,B,"uses") and (A,B,"calls"), of two kinds, have been merged into one
\* relationship
C6_Witness ==
    /\ pc = "merged"
    /\ Len(before) = 2
    /\ before[1].source_id = before[2].source_id
    /\ before[1].target_id = before[2].target_id
    /\ before[1].relationship_type = "uses"
    /\ before[2].relationship_type = "calls"
    /\ Len(relationships) = 1
    /\ relationships[1].label =
           <<"u", "s", "e", "s", " ", "/", " ", "c", "a", "l", "l", "s">>

\* there is an intermediate node i # t with edges s -> i and i -> t in rels
TwoEdgePath(rels, s, t) ==
    \E i, j \in DOMAIN rels :
        /\ rels[i].source_id = s
        /\ rels[i].target_id # t
        /\ rels[j].source_id = rels[i].target_id
        /\ rels[j].target_id = t

\* C7: transitive simplification removes an edge (s,t) if and only if the edge
\* set before the pass has an intermediate node i # t with edges s -> i and
\* i -> t; it removes nothing from an edge set without such a path.
C7_TransitiveRemovesIffTwoEdgePath ==
    pc = "simplified" =>
        /\ relationships =
              SelectSeq(before, LAMBDA rel : ~TwoEdgePath(before, rel.source_id, rel.target_id))
        /\ (\A i \in DOMAIN before :
               ~TwoEdgePath(before, before[i].source_id, before[i].target_id))
           => relationships = before

\* of A -> B, B -> C, A -> C (in any order) exactly A -> C has been dropped
C7_Witness ==
    /\ pc = "simplified"
    /\ Pairs(before) = {<<"a", "b">>, <<"b", "c">>, <<"a", "c">>}
    /\ Len(before) = 3
    /\ Len(relationships) = 2
    /\ Pairs(relationships) = {<<"a", "b">>, <<"b", "c">>}

\* C8: if every relationship of the input diagram references present elements,
\* then after each of the four optimizer passes (relationship optimization,
\* clustering, layout, validation) every relationship of the working diagram
\* has its source and target ids in the working diagram's element list.
C8_PassesKeepReferentialIntegrity ==
    ( /\ pc \in {"relationships_optimized", "clustered", "laid_out",
                 "optimization_validated", "returned"}
      /\ ReferencesPresent(input.elements, input.relationships) )
    => ReferencesPresent(elements, relationships)

\* optimize_diagram has returned a diagram from which the relationship pass
\* removed a relationship and which still holds one
C8_Witness ==
    /\ pc = "returned"
    /\ Len(input.relationships) = 2
    /\ Len(relationships) = 1
    /\ Len(elements) = 3

----------------------------------------------------------------------------
(* get_statistics *)

RECURSIVE SumOfCounts(_)
\* the sum of the values of a dict of counts
SumOfCounts(counts) ==
    IF counts = {} THEN 0
    ELSE LET p == CHOOSE q \in counts : TRUE
         IN p[2] + SumOfCounts(counts \ {p})

\* C15: on every diagram built by add_element, add_relationship and
\* remove_element, get_statistics() returns the lengths of the two lists as the
\* totals, element-kind counts that sum to total_elements and
\* relationship-kind counts that sum to total_relationships.
C15_StatisticsCountsSumToTotals ==
    call.op = "get_statistics" =>
        /\ returned.total_elements = Len(elements)
        /\ returned.total_relationships = Len(relationships)
        /\ SumOfCounts(returned.element_types) = returned.total_elements
        /\ SumOfCounts(returned.relationship_types) = returned.total_relationships

\* get_statistics() has returned on a diagram with two elements of one kind and
\* two relationships of one kind
C15_Witness ==
    /\ call.op = "get_statistics"
    /\ Len(elements) = 2
    /\ elements[1].element_type = elements[2].element_type
    /\ Len(relationships) = 2
    /\ relationships[1].relationship_type = relationships[2].relationship_type

----------------------------------------------------------------------------
(* Clustering by element kind *)

\* the clusters a clustering step appends to metadata['clusters']
AppendedClusters ==
    SubSeq(metadata'.clusters, ClusterCount(metadata) + 1, Len(metadata'.clusters))

\* the kinds of the elements whose id is element_id
KindsOf(els, element_id) ==
    {els[i].element_type : i \in {j \in DOMAIN els : els[j].id = element_id}}

\* C14: every cluster the clustering pass forms by element kind lists at least
\* two element ids, all of elements of one kind, and the id of an element that is
\* the only one of its kind is in no such cluster.
C14_KindClustersHaveTwoOfOneKind ==
    [][(pc = "relationships_optimized" /\ pc' = "clustered" /\ config.enable_clustering) =>
          \A k \in DOMAIN AppendedClusters :
              LET cluster == AppendedClusters[k] IN
              cluster.type = "element_type" =>
                  /\ Len(cluster.elements) >= 2
                  /\ \E kind \in {elements[i].element_type : i \in DOMAIN elements} :
                        \A m \in DOMAIN cluster.elements :
                            KindsOf(elements, cluster.elements[m]) = {kind}
                  /\ \A i \in DOMAIN elements :
                        (\A j \in DOMAIN elements :
                            elements[j].element_type = elements[i].element_type => j = i)
                        => \A m \in DOMAIN cluster.elements :
                               cluster.elements[m] # elements[i].id]_vars

\* the clustering pass has formed a cluster of two components next to a person,
\* the only element of its kind
C14_Witness ==
    /\ pc = "clustered"
    /\ config.enable_clustering
    /\ config.cluster_by_type
    /\ ~input.metadata.has_clusters
    /\ Len(elements) = 3
    /\ Cardinality({i \in DOMAIN elements : elements[i].element_type = "component"}) = 2
    /\ Cardinality({i \in DOMAIN elements : elements[i].element_type = "person"}) = 1
    /\ \E k \in DOMAIN metadata.clusters :
          /\ metadata.clusters[k].type = "element_type"
          /\ Len(metadata.clusters[k].elements) = 2

----------------------------------------------------------------------------
(* Merging two labels *)

\* C20: when two non-empty labels are merged and one is a case-insensitive
\* substring of the other (labels differing in letter case only included), the
\* result is one of the two labels, as long as the longer one, and not
\* "label1 / label2"; otherwise the result is "label1 / label2".
C20_SubstringLabelsNeverConcatenated ==
    pc = "labels_merged" =>
        LET label1 == call.arg[1]
            label2 == call.arg[2]
            joined == label1 \o <<" ", "/", " ">> \o label2
        IN (label1 # <<>> /\ label2 # <<>>) =>
              IF \/ Contains(lower(label1), lower(label2))
                 \/ Contains(lower(label2), lower(label1))
              THEN /\ returned \in {label1, label2}
                   /\ Len(returned) = Max(Len(label1), Len(label2))
                   /\ returned # joined
              ELSE returned = joined

----------------------------------------------------------------------------
(* The force-directed pass *)

\* every single-axis force of the coming iteration is below force_threshold
EveryForceBelowThreshold ==
    LET forces == Forces(elements, relationships, config) IN
    \A i \in DOMAIN forces : \A axis \in {1, 2} :
        Abs(forces[i][axis]) * config.force_threshold.d
            < config.force_threshold.n * Scale

\* C11: the force-directed pass terminates: it never executes more than
\* max_optimization_iterations iterations, and every step of the loop either
\* counts one more iteration or leaves the loop; an iteration ends the loop
\* early exactly when every single-axis force computed in it is below
\* force_threshold; after the break nothing moves, and the loop is otherwise
\* left only after iteration number max_optimization_iterations.
C11_ForceLoopStops ==
    /\ [](pc \in {"force_start", "force_loop", "force_break", "force_done"} =>
            iteration <= config.max_optimization_iterations)
    /\ [][pc = "force_loop" =>
            (iteration' = iteration + 1 \/ pc' = "force_done")]_vars
    /\ [][(pc = "force_loop" /\ iteration' = iteration + 1) =>
            (pc' = "force_break" <=> EveryForceBelowThreshold)]_vars
    /\ [][pc = "force_break" => (pc' = "force_done" /\ elements' = elements)]_vars
    /\ [][(pc = "force_loop" /\ pc' = "force_done") =>
            iteration = config.max_optimization_iterations]_vars

\* the pass has stopped by convergence in its second iteration or later
C11_Witness ==
    /\ pc = "force_break"
    /\ iteration >= 2
    /\ iteration < config.max_optimization_iterations

\* margin <= x <= canvas_width - margin and margin <= y <= canvas_height - margin
\* for every element
WithinCanvas(els, cfg) ==
    \A i \in DOMAIN els :
        /\ els[i].x.kind = "float"
        /\ els[i].y.kind = "float"
        /\ cfg.margin * els[i].x.d <= els[i].x.n
        /\ els[i].x.n <= (cfg.canvas_width - cfg.margin) * els[i].x.d
        /\ cfg.margin * els[i].y.d <= els[i].y.n
        /\ els[i].y.n <= (cfg.canvas_height - cfg.margin) * els[i].y.d

MarginsFit(cfg) ==
    /\ 2 * cfg.margin <= cfg.canvas_width
    /\ 2 * cfg.margin <= cfg.canvas_height

\* C12: when 2 * margin <= canvas_width and 2 * margin <= canvas_height, every
\* element is within the canvas margins after every iteration of the
\* force-directed pass, and when the pass ends.
C12_WithinCanvasAfterPass ==
    (/\ MarginsFit(config)
     /\ \/ pc \in {"force_loop", "force_break"} /\ iteration >= 1
        \/ pc = "force_done")
    => WithinCanvas(elements, config)

\* C12, amended: when 2 * margin <= canvas_width and 2 * margin <= canvas_height,
\* every element is within the canvas margins after every iteration of the
\* force-directed pass, and when a pass that has executed an iteration ends.
C12_WithinCanvasAfterEveryIteration ==
    (/\ MarginsFit(config)
     /\ pc \in {"force_loop", "force_break", "force_done"}
     /\ iteration >= 1)
    => WithinCanvas(elements, config)

\* an iteration has brought an element from outside the canvas to the margin on
\* both axes
C12_Witness ==
    /\ pc \in {"force_loop", "force_break"}
    /\ iteration = 1
    /\ ~first_pass.done
    /\ \E i \in DOMAIN elements :
          /\ elements[i].x = Float(config.margin, 1)
          /\ elements[i].y = Float(config.canvas_height - config.margin, 1)

\* C13: when a force-directed pass that stopped by convergence is followed by
\* another pass on the positions it produced, the second pass leaves every
\* element, on each axis, less than force_threshold away from where the first
\* pass left it.
C13_RerunMovesLessThanThreshold ==
    (pc = "force_done" /\ first_pass.done /\ first_pass.converged) =>
        \A i \in DOMAIN elements :
            /\ Abs(Fixed(elements[i].x) - Fixed(first_pass.elements[i].x))
                   * config.force_threshold.d < config.force_threshold.n * Scale
            /\ Abs(Fixed(elements[i].y) - Fixed(first_pass.elements[i].y))
                   * config.force_threshold.d < config.force_threshold.n * Scale

----------------------------------------------------------------------------
(* Two runs of optimize_diagram *)

ClusterOf(element) ==
    {p \in element.properties : p[1] \in {"cluster_id", "cluster_type"}}

\* C19: a second run of optimize_diagram on an identical diagram with the same
\* configuration, in the same or in another process, returns the relationship
\* list, the cluster properties and the element coordinates of the first run,
\* whatever the layout strategy.
C19_OptimizeDiagramDeterministic ==
    (pc = "returned" /\ earlier.done) =>
        /\ returned.relationships = earlier.returned.relationships
        /\ Len(returned.elements) = Len(earlier.returned.elements)
        /\ \A i \in DOMAIN returned.elements :
              /\ returned.elements[i].x = earlier.returned.elements[i].x
              /\ returned.elements[i].y = earlier.returned.elements[i].y
              /\ ClusterOf(returned.elements[i])
                     = ClusterOf(earlier.returned.elements[i])

----------------------------------------------------------------------------
(* The architecture extractor *)

\* the position in rels of the first relationship with the given key
FirstWithKey(rels, key) ==
    CHOOSE i \in DOMAIN rels :
        /\ RelationshipKey(rels[i]) = key
        /\ \A j \in 1..(i - 1) : RelationshipKey(rels[j]) # key

\* C16: the list returned by extract_relationships holds no two edges with the
\* same (source, target, kind); for every triple that the six passes produced
\* it holds the first edge with that triple, in pass order, and the kept edges
\* are in the order of those first occurrences.
C16_DeduplicationKeepsFirstInOrder ==
    pc = "deduplicated" =>
        /\ \A k, l \in DOMAIN extracted :
              k # l => RelationshipKey(extracted[k]) # RelationshipKey(extracted[l])
        /\ {RelationshipKey(before[i]) : i \in DOMAIN before}
               = {RelationshipKey(extracted[k]) : k \in DOMAIN extracted}
        /\ \A k \in DOMAIN extracted :
              extracted[k] = before[FirstWithKey(before, RelationshipKey(extracted[k]))]
        /\ \A k, l \in DOMAIN extracted :
              k < l => FirstWithKey(before, RelationshipKey(extracted[k]))
                           < FirstWithKey(before, RelationshipKey(extracted[l]))

\* the passes produced two different edges with one triple, with an edge of
\* another triple after them, and the later duplicate was discarded
C16_Witness ==
    /\ pc = "deduplicated"
    /\ Len(extracted) < Len(before)
    /\ Len(extracted) >= 2
    /\ \E i, j \in DOMAIN before :
          /\ i < j
          /\ RelationshipKey(before[i]) = RelationshipKey(before[j])
          /\ before[i] # before[j]
          /\ \E k \in DOMAIN before :
                j < k /\ RelationshipKey(before[k]) # RelationshipKey(before[i])

\* the modules controller, service and repository, each declaring a class, with
\* the imports controller -> service and service -> repository
IsScenario ==
    /\ Len(analysis_results) = 3
    /\ Range(analysis_results)
           = {ModuleCatalogue[1], ModuleCatalogue[2], ModuleCatalogue[3]}

\* the name of the component of a functional area
ComponentOfArea(functional_area) ==
    title(functional_area) \o <<" ", "C", "o", "m", "p", "o", "n", "e", "n", "t">>

HasEdge(source, target, relationship_type) ==
    \E k \in DOMAIN extracted :
        /\ extracted[k].source = source
        /\ extracted[k].target = target
        /\ extracted[k].relationship_type = relationship_type

C18_OneSystemNamedAsProject ==
    pc = "classified" =>
        LET own == {i \in DOMAIN components :
                       /\ components[i].type = "software_system"
                       /\ ~MetadataGet(components[i].metadata, "external", FALSE)}
        IN /\ Cardinality(own) = 1
           /\ \A i \in own : components[i].name = ProjectName(repository_info)

----------------------------------------------------------------------------
(* optimize_diagram: the coordinates of the returned elements *)

HasCoordinates(element) == element.x # NoCoordinate /\ element.y # NoCoordinate

\* (margin + element_width / 2, margin + element_height / 2)
AtDefaultPosition(element, cfg) ==
    /\ element.x = Float(2 * cfg.margin + cfg.element_width, 2)
    /\ element.y = Float(2 * cfg.margin + cfg.element_height, 2)

\* C21: when optimize_diagram returns, every element of the returned diagram
\* has an x and a y coordinate, under every layout strategy; and the validation
\* pass puts every element that the layout pass left without coordinates at
\* (margin + element_width / 2, margin + element_height / 2)
C21_ReturnedElementsHaveCoordinates ==
    /\ [](pc = "returned" =>
            \A i \in DOMAIN returned.elements : HasCoordinates(returned.elements[i]))
    /\ [][pc = "laid_out" =>
            /\ Len(elements') = Len(elements)
            /\ \A i \in DOMAIN elements :
                  ~HasCoordinates(elements[i]) => AtDefaultPosition(elements'[i], config)]_vars

\* a diagram of two or more elements was returned whose layout pass placed
\* nothing, every element sitting at the default position
C21_Witness ==
    /\ pc = "returned"
    /\ config.layout_strategy \notin LayoutStrategy
    /\ Len(returned.elements) >= 2
    /\ \A i \in DOMAIN returned.elements : AtDefaultPosition(returned.elements[i], config)

----------------------------------------------------------------------------
(* classify_architecture: the functional groups and their Component nodes *)

\* the modules of analysis_results that fall into a functional group
ModulesOfGroup(group_name) ==
    {i \in DOMAIN analysis_results : GroupOf(analysis_results[i]) = group_name}

\* the Component nodes of a functional group
NodesOfGroup(group_name) ==
    {k \in DOMAIN components :
        /\ components[k].type = "component"
        /\ MetadataGet(components[k].metadata, "functional_area", NoString) = group_name}

Declares(i) ==
    \/ analysis_results[i].classes # <<>>
    \/ analysis_results[i].functions # <<>>
    \/ analysis_results[i].interfaces # <<>>

OneNodeWithTheFilesOf(group_name) ==
    /\ Cardinality(NodesOfGroup(group_name)) = 1
    /\ \A k \in NodesOfGroup(group_name) :
          components[k].source_files =
              {analysis_results[i].path : i \in ModulesOfGroup(group_name)}

\* C22: every module falls into one of the ten functional groups, and every
\* group with at least one module is one Component node whose source files are
\* the files of the modules of the group, also when no module of the group
\* declares a class, a function or an interface
C22_EveryGroupIsOneComponent ==
    pc = "classified" =>
        /\ \A i \in DOMAIN analysis_results : GroupOf(analysis_results[i]) \in Range(groups)
        /\ \A g \in Range(groups) :
              ModulesOfGroup(g) # {} => OneNodeWithTheFilesOf(g)

\* C22 as amended: a group with a module that declares a class, a function or
\* an interface is one Component node whose source files are the files of all
\* the modules of the group; a group none of whose modules declares anything
\* is no node
C22_EveryDeclaringGroupIsOneComponent ==
    pc = "classified" =>
        /\ \A i \in DOMAIN analysis_results : GroupOf(analysis_results[i]) \in Range(groups)
        /\ \A g \in Range(groups) :
              IF \E i \in ModulesOfGroup(g) : Declares(i)
              THEN OneNodeWithTheFilesOf(g)
              ELSE NodesOfGroup(g) = {}

\* a group of two modules, one of which declares nothing, classified as one
\* node with two source files
C22_Witness ==
    /\ pc = "classified"
    /\ \E g \in Range(groups) :
          /\ Cardinality(ModulesOfGroup(g)) = 2
          /\ \E i \in ModulesOfGroup(g) : ~Declares(i)
          /\ \E k \in NodesOfGroup(g) : Cardinality(components[k].source_files) = 2

----------------------------------------------------------------------------
(* _apply_grid_layout: columns and positions *)

\* the least r with r * r >= n
CeilSqrt(n) == CHOOSE r \in 0..n : r * r >= n /\ (r = 0 \/ (r - 1) * (r - 1) < n)

\* the x of column col of a grid of cols columns: the centre of the col-th of
\* cols equal parts of the canvas width inside the margins
ColumnCentre(cfg, cols, col) ==
    CellCentre(cfg.margin, cfg.canvas_width - 2 * cfg.margin, cols, col)

\* C23: the grid layout of n >= 1 elements has ceil(sqrt(n)) columns, element
\* i standing in column i mod ceil(sqrt(n)), and puts no two elements at the
\* same position
C23_GridHasCeilSqrtColumns ==
    (pc = "laid_out" /\ config.layout_strategy = "grid" /\ Len(elements) >= 1) =>
        /\ \A i \in DOMAIN elements :
              elements[i].x = ColumnCentre(config, CeilSqrt(Len(elements)),
                                           (i - 1) % CeilSqrt(Len(elements)))
        /\ \A i, j \in DOMAIN elements :
              (elements[i].x = elements[j].x /\ elements[i].y = elements[j].y) => i = j

----------------------------------------------------------------------------
(* extract_relationships: the depends_on edges *)

NodesNamed(name) == {k \in DOMAIN components : components[k].name = name}

IsComponentNode(k) == components[k].type = "component"

IsExternalNode(k) == MetadataGet(components[k].metadata, "external", FALSE)

\* the part of an import name after its last dot
LastSegment(import_name) ==
    LET segments == split(import_name, ".") IN segments[Len(segments)]

\* node k owns a module of analysis_results with this stem
OwnsModuleWithStem(k, stem) ==
    \E i \in DOMAIN analysis_results :
        /\ analysis_results[i].path \in components[k].source_files
        /\ PathStem(analysis_results[i].path) = stem

\* node k owns a module whose stem is the import name or ends it after a dot
OwnsModuleEnding(k, import_name) ==
    \E i \in DOMAIN analysis_results :
        /\ analysis_results[i].path \in components[k].source_files
        /\ \/ PathStem(analysis_results[i].path) = import_name
           \/ endswith(import_name, <<".">> \o PathStem(analysis_results[i].path))

DependsOnEdges == {i \in DOMAIN extracted : extracted[i].relationship_type = "depends_on"}

\* C24: every depends_on edge goes from a Component node to a different
\* Component node that owns a module whose stem is the import name or its last
\* dotted segment; no depends_on edge ends at an external system
C24_DependsOnBetweenComponents ==
    \A i \in DependsOnEdges :
        /\ extracted[i].source # extracted[i].target
        /\ \E s \in NodesNamed(extracted[i].source) : IsComponentNode(s)
        /\ \E t \in NodesNamed(extracted[i].target) :
              /\ IsComponentNode(t)
              /\ ~IsExternalNode(t)
              /\ \/ OwnsModuleWithStem(t, extracted[i].metadata.import)
                 \/ OwnsModuleWithStem(t, LastSegment(extracted[i].metadata.import))

\* C24 as amended: every depends_on edge goes from a Component node to a
\* different node, which is either a Component node that owns a module whose
\* stem is the import name or ends the import name after a dot, or else an
\* external system among whose recorded imports the import name is
C24_DependsOnComponentOrExternal ==
    \A i \in DependsOnEdges :
        /\ extracted[i].source # extracted[i].target
        /\ \E s \in NodesNamed(extracted[i].source) : IsComponentNode(s)
        /\ \E t \in NodesNamed(extracted[i].target) :
              \/ IsComponentNode(t) /\ OwnsModuleEnding(t, extracted[i].metadata.import)
              \/ /\ IsExternalNode(t)
                 /\ extracted[i].metadata.import
                        \in MetadataGet(components[t].metadata, "imports", {})

\* the extractor returned a depends_on edge to a Component node and one to an
\* external system
C24_Witness ==
    /\ pc = "deduplicated"
    /\ \E i \in DependsOnEdges : \E t \in NodesNamed(extracted[i].target) : IsComponentNode(t)
    /\ \E i \in DependsOnEdges : \E t \in NodesNamed(extracted[i].target) : IsExternalNode(t)

----------------------------------------------------------------------------
(* optimize_diagram and the diagram it is given *)

\* C25: optimize_diagram leaves the diagram it is given as it was: at every
\* point of every call, also of a call on a diagram that an earlier pass gave
\* a 'clusters' list, the elements, relationships and metadata of the input
\* are the ones it had when the first call began
C25_InputUnchanged == input = earlier.input

----------------------------------------------------------------------------
(* Clustering: the cluster_id and cluster_type properties *)

InCluster(cluster, element_id) ==
    \E m \in DOMAIN cluster.elements : cluster.elements[m] = element_id

\* C26: after the clustering pass every element that is in one of the clusters
\* the pass formed has a cluster_id and a cluster_type, an element in none of
\* them has neither, and two elements have the same cluster_id only if one of
\* the clusters formed holds both
C26_ClusterIdsIdentifyClusters ==
    [][(pc = "relationships_optimized" /\ pc' = "clustered" /\ config.enable_clustering) =>
          /\ \A i \in DOMAIN elements' :
                IF \E k \in DOMAIN AppendedClusters :
                       InCluster(AppendedClusters[k], elements'[i].id)
                THEN /\ HasKey(elements'[i].properties, "cluster_id")
                     /\ HasKey(elements'[i].properties, "cluster_type")
                ELSE /\ ~HasKey(elements'[i].properties, "cluster_id")
                     /\ ~HasKey(elements'[i].properties, "cluster_type")
          /\ \A i, j \in DOMAIN elements' :
                (/\ i # j
                 /\ HasKey(elements'[i].properties, "cluster_id")
                 /\ HasKey(elements'[j].properties, "cluster_id")
                 /\ Get(elements'[i].properties, "cluster_id", None)
                        = Get(elements'[j].properties, "cluster_id", None))
                => \E k \in DOMAIN AppendedClusters :
                       /\ InCluster(AppendedClusters[k], elements'[i].id)
                       /\ InCluster(AppendedClusters[k], elements'[j].id)]_vars

----------------------------------------------------------------------------
(* optimize_diagram on a diagram without elements *)

\* C27: optimize_diagram on a diagram without elements and relationships
\* raises nothing, whatever the layout strategy
C27_EmptyDiagramNeverRaises ==
    (input.elements = <<>> /\ input.relationships = <<>>) => raised = None

----------------------------------------------------------------------------
(* _apply_hierarchical_layout and the canvas *)

\* lo <= c <= hi for a float c
FloatWithin(c, lo, hi) == lo * c.d <= c.n /\ c.n <= hi * c.d

\* C28: when the margins leave room on the canvas, the hierarchical layout of
\* a diagram of one or more elements puts every element within the margins
C28_HierarchicalWithinMargins ==
    ( /\ pc = "laid_out"
      /\ config.layout_strategy = "hierarchical"
      /\ Len(elements) >= 1
      /\ 2 * config.margin < config.canvas_width
      /\ 2 * config.margin < config.canvas_height ) =>
        \A i \in DOMAIN elements :
            /\ FloatWithin(elements[i].x, config.margin, config.canvas_width - config.margin)
            /\ FloatWithin(elements[i].y, config.margin, config.canvas_height - config.margin)

----------------------------------------------------------------------------
(* Transitive simplification and reachability *)

\* C29: for every relationship (s, t) that transitive simplification removes,
\* t can still be reached from s along the relationships it keeps
C29_SimplificationPreservesReachability ==
    pc = "simplified" =>
        \A i \in DOMAIN before :
            (\A k \in DOMAIN relationships : relationships[k].id # before[i].id)
            => before[i].target_id \in ReachableFrom({before[i].source_id}, relationships)

----------------------------------------------------------------------------
(* optimize_diagram on the element classes *)

\* C30: optimize_diagram comes to its end on every diagram of one or more
\* elements, whatever classes its elements are of, and the diagram it returns
\* lists the ids of the input in the same order, each with the name and the
\* kind it has in the input
C30_EveryElementClassIsCopied ==
    input.elements # <<>> =>
        /\ pc # "raised"
        /\ pc = "returned" =>
              /\ Len(returned.elements) = Len(input.elements)
              /\ \A i \in DOMAIN input.elements :
                    /\ returned.elements[i].id = input.elements[i].id
                    /\ returned.elements[i].name = input.elements[i].name
                    /\ returned.elements[i].element_type = input.elements[i].element_type

====
